---- MODULE Spec2Model ----
(***************************************************************************)
(* A model of tcec-notifier: the EngineName normalisation (src/src/tcec.rs),*)
(* the PGN visitor and the game identity hash (src/src/tcec_pgn.rs), the   *)
(* seen-game store (src/src/state.rs) and the polling loop                 *)
(* (src/src/main.rs).                                                      *)
(*                                                                         *)
(* Text is a sequence of characters.  A character is a one-character       *)
(* string when it is printable ASCII (but the grave accent) or one of tab, *)
(* line feed, form feed and carriage return, written with their escapes;   *)
(* any other character is the string "U+" followed by its code point in    *)
(* four to six hexadecimal digits ("U+00A0", "U+0663", "U+1D7CE").  The    *)
(* model knows the characters of AsciiChars, WhiteSpace and DecimalDigits. *)
(* Option<T> is a sequence of length at most one: <<>> is None, <<x>> is   *)
(* Some(x).                                                                *)
(*                                                                         *)
(* Left out: the log lines, and with them the first_run flag of main,      *)
(* which only chooses between two log lines; the HTTP and Discord          *)
(* transports, whose outcomes are inputs of the actions that use them.     *)
(***************************************************************************)
EXTENDS Integers, Sequences, FiniteSets, TLC

\* ------------------------------------------------------------------------
\* Bounds of the model
\* ------------------------------------------------------------------------

\* Process starts (the first start and the restarts after a crash or panic).
MaxRuns == 2

\* Polling turns begun over all runs.
MaxTurns == 2

\* Tokens handed to the visitor in one parse, after the tags it starts from.
MaxTokens == 4

\* Writes to the backing record that fail, over all runs.
MaxWriteFaults == 1

\* Bytes one read call brings in: a failing read fails between two calls.
ReadBlock == 16

\* Parts of the longest version number put after a name: one more than the
\* version pattern takes.
MaxParts == 4

\* Moves of the longest game whose hash and opening are studied.
MaxMoves == 4

\* Parts of a game changed before its hash is compared with the original's.
MaxEdits == 2

\* ------------------------------------------------------------------------
\* Characters and text
\* ------------------------------------------------------------------------

None == <<>>

Some(x) == <<x>>

\* The printable ASCII characters, U+0020 to U+007E, in code point order.
AsciiChars ==
    <<" ", "!", "\"", "#", "$", "%", "&", "'", "(", ")", "*", "+", ",", "-", ".", "/",
      "0", "1", "2", "3", "4", "5", "6", "7", "8", "9", ":", ";", "<", "=", ">", "?",
      "@", "A", "B", "C", "D", "E", "F", "G", "H", "I", "J", "K", "L", "M", "N", "O",
      "P", "Q", "R", "S", "T", "U", "V", "W", "X", "Y", "Z", "[", "\\", "]", "^", "_",
      "U+0060", "a", "b", "c", "d", "e", "f", "g", "h", "i", "j", "k", "l", "m", "n", "o",
      "p", "q", "r", "s", "t", "u", "v", "w", "x", "y", "z", "{", "|", "}", "~" >>

\* The characters with the Unicode property White_Space, each with its code
\* point: what char::is_whitespace is true of.
WhiteSpace ==
    << <<"\t", 9>>, <<"\n", 10>>, <<"U+000B", 11>>, <<"\f", 12>>, <<"\r", 13>>,
       <<" ", 32>>, <<"U+0085", 133>>, <<"U+00A0", 160>>, <<"U+1680", 5760>>, <<"U+2000", 8192>>,
       <<"U+2001", 8193>>, <<"U+2002", 8194>>, <<"U+2003", 8195>>, <<"U+2004", 8196>>, <<"U+2005", 8197>>,
       <<"U+2006", 8198>>, <<"U+2007", 8199>>, <<"U+2008", 8200>>, <<"U+2009", 8201>>, <<"U+200A", 8202>>,
       <<"U+2028", 8232>>, <<"U+2029", 8233>>, <<"U+202F", 8239>>, <<"U+205F", 8287>>, <<"U+3000", 12288>> >>

\* The characters of the Unicode general category Nd (Unicode 16.0), which is
\* what \d stands for in a pattern of the regex crate that does not switch
\* Unicode off: one element for each run of ten digits, the code point of its
\* zero and the ten characters from zero to nine.
DecimalDigits ==
    {  <<48, <<"0", "1", "2", "3", "4", "5", "6", "7", "8", "9">>>>,
       <<1632, <<"U+0660", "U+0661", "U+0662", "U+0663", "U+0664", "U+0665", "U+0666", "U+0667", "U+0668", "U+0669">>>>,
       <<1776, <<"U+06F0", "U+06F1", "U+06F2", "U+06F3", "U+06F4", "U+06F5", "U+06F6", "U+06F7", "U+06F8", "U+06F9">>>>,
       <<1984, <<"U+07C0", "U+07C1", "U+07C2", "U+07C3", "U+07C4", "U+07C5", "U+07C6", "U+07C7", "U+07C8", "U+07C9">>>>,
       <<2406, <<"U+0966", "U+0967", "U+0968", "U+0969", "U+096A", "U+096B", "U+096C", "U+096D", "U+096E", "U+096F">>>>,
       <<2534, <<"U+09E6", "U+09E7", "U+09E8", "U+09E9", "U+09EA", "U+09EB", "U+09EC", "U+09ED", "U+09EE", "U+09EF">>>>,
       <<2662, <<"U+0A66", "U+0A67", "U+0A68", "U+0A69", "U+0A6A", "U+0A6B", "U+0A6C", "U+0A6D", "U+0A6E", "U+0A6F">>>>,
       <<2790, <<"U+0AE6", "U+0AE7", "U+0AE8", "U+0AE9", "U+0AEA", "U+0AEB", "U+0AEC", "U+0AED", "U+0AEE", "U+0AEF">>>>,
       <<2918, <<"U+0B66", "U+0B67", "U+0B68", "U+0B69", "U+0B6A", "U+0B6B", "U+0B6C", "U+0B6D", "U+0B6E", "U+0B6F">>>>,
       <<3046, <<"U+0BE6", "U+0BE7", "U+0BE8", "U+0BE9", "U+0BEA", "U+0BEB", "U+0BEC", "U+0BED", "U+0BEE", "U+0BEF">>>>,
       <<3174, <<"U+0C66", "U+0C67", "U+0C68", "U+0C69", "U+0C6A", "U+0C6B", "U+0C6C", "U+0C6D", "U+0C6E", "U+0C6F">>>>,
       <<3302, <<"U+0CE6", "U+0CE7", "U+0CE8", "U+0CE9", "U+0CEA", "U+0CEB", "U+0CEC", "U+0CED", "U+0CEE", "U+0CEF">>>>,
       <<3430, <<"U+0D66", "U+0D67", "U+0D68", "U+0D69", "U+0D6A", "U+0D6B", "U+0D6C", "U+0D6D", "U+0D6E", "U+0D6F">>>>,
       <<3558, <<"U+0DE6", "U+0DE7", "U+0DE8", "U+0DE9", "U+0DEA", "U+0DEB", "U+0DEC", "U+0DED", "U+0DEE", "U+0DEF">>>>,
       <<3664, <<"U+0E50", "U+0E51", "U+0E52", "U+0E53", "U+0E54", "U+0E55", "U+0E56", "U+0E57", "U+0E58", "U+0E59">>>>,
       <<3792, <<"U+0ED0", "U+0ED1", "U+0ED2", "U+0ED3", "U+0ED4", "U+0ED5", "U+0ED6", "U+0ED7", "U+0ED8", "U+0ED9">>>>,
       <<3872, <<"U+0F20", "U+0F21", "U+0F22", "U+0F23", "U+0F24", "U+0F25", "U+0F26", "U+0F27", "U+0F28", "U+0F29">>>>,
       <<4160, <<"U+1040", "U+1041", "U+1042", "U+1043", "U+1044", "U+1045", "U+1046", "U+1047", "U+1048", "U+1049">>>>,
       <<4240, <<"U+1090", "U+1091", "U+1092", "U+1093", "U+1094", "U+1095", "U+1096", "U+1097", "U+1098", "U+1099">>>>,
       <<6112, <<"U+17E0", "U+17E1", "U+17E2", "U+17E3", "U+17E4", "U+17E5", "U+17E6", "U+17E7", "U+17E8", "U+17E9">>>>,
       <<6160, <<"U+1810", "U+1811", "U+1812", "U+1813", "U+1814", "U+1815", "U+1816", "U+1817", "U+1818", "U+1819">>>>,
       <<6470, <<"U+1946", "U+1947", "U+1948", "U+1949", "U+194A", "U+194B", "U+194C", "U+194D", "U+194E", "U+194F">>>>,
       <<6608, <<"U+19D0", "U+19D1", "U+19D2", "U+19D3", "U+19D4", "U+19D5", "U+19D6", "U+19D7", "U+19D8", "U+19D9">>>>,
       <<6784, <<"U+1A80", "U+1A81", "U+1A82", "U+1A83", "U+1A84", "U+1A85", "U+1A86", "U+1A87", "U+1A88", "U+1A89">>>>,
       <<6800, <<"U+1A90", "U+1A91", "U+1A92", "U+1A93", "U+1A94", "U+1A95", "U+1A96", "U+1A97", "U+1A98", "U+1A99">>>>,
       <<6992, <<"U+1B50", "U+1B51", "U+1B52", "U+1B53", "U+1B54", "U+1B55", "U+1B56", "U+1B57", "U+1B58", "U+1B59">>>>,
       <<7088, <<"U+1BB0", "U+1BB1", "U+1BB2", "U+1BB3", "U+1BB4", "U+1BB5", "U+1BB6", "U+1BB7", "U+1BB8", "U+1BB9">>>>,
       <<7232, <<"U+1C40", "U+1C41", "U+1C42", "U+1C43", "U+1C44", "U+1C45", "U+1C46", "U+1C47", "U+1C48", "U+1C49">>>>,
       <<7248, <<"U+1C50", "U+1C51", "U+1C52", "U+1C53", "U+1C54", "U+1C55", "U+1C56", "U+1C57", "U+1C58", "U+1C59">>>>,
       <<42528, <<"U+A620", "U+A621", "U+A622", "U+A623", "U+A624", "U+A625", "U+A626", "U+A627", "U+A628", "U+A629">>>>,
       <<43216, <<"U+A8D0", "U+A8D1", "U+A8D2", "U+A8D3", "U+A8D4", "U+A8D5", "U+A8D6", "U+A8D7", "U+A8D8", "U+A8D9">>>>,
       <<43264, <<"U+A900", "U+A901", "U+A902", "U+A903", "U+A904", "U+A905", "U+A906", "U+A907", "U+A908", "U+A909">>>>,
       <<43472, <<"U+A9D0", "U+A9D1", "U+A9D2", "U+A9D3", "U+A9D4", "U+A9D5", "U+A9D6", "U+A9D7", "U+A9D8", "U+A9D9">>>>,
       <<43504, <<"U+A9F0", "U+A9F1", "U+A9F2", "U+A9F3", "U+A9F4", "U+A9F5", "U+A9F6", "U+A9F7", "U+A9F8", "U+A9F9">>>>,
       <<43600, <<"U+AA50", "U+AA51", "U+AA52", "U+AA53", "U+AA54", "U+AA55", "U+AA56", "U+AA57", "U+AA58", "U+AA59">>>>,
       <<44016, <<"U+ABF0", "U+ABF1", "U+ABF2", "U+ABF3", "U+ABF4", "U+ABF5", "U+ABF6", "U+ABF7", "U+ABF8", "U+ABF9">>>>,
       <<65296, <<"U+FF10", "U+FF11", "U+FF12", "U+FF13", "U+FF14", "U+FF15", "U+FF16", "U+FF17", "U+FF18", "U+FF19">>>>,
       <<66720, <<"U+104A0", "U+104A1", "U+104A2", "U+104A3", "U+104A4", "U+104A5", "U+104A6", "U+104A7", "U+104A8", "U+104A9">>>>,
       <<68912, <<"U+10D30", "U+10D31", "U+10D32", "U+10D33", "U+10D34", "U+10D35", "U+10D36", "U+10D37", "U+10D38", "U+10D39">>>>,
       <<68928, <<"U+10D40", "U+10D41", "U+10D42", "U+10D43", "U+10D44", "U+10D45", "U+10D46", "U+10D47", "U+10D48", "U+10D49">>>>,
       <<69734, <<"U+11066", "U+11067", "U+11068", "U+11069", "U+1106A", "U+1106B", "U+1106C", "U+1106D", "U+1106E", "U+1106F">>>>,
       <<69872, <<"U+110F0", "U+110F1", "U+110F2", "U+110F3", "U+110F4", "U+110F5", "U+110F6", "U+110F7", "U+110F8", "U+110F9">>>>,
       <<69942, <<"U+11136", "U+11137", "U+11138", "U+11139", "U+1113A", "U+1113B", "U+1113C", "U+1113D", "U+1113E", "U+1113F">>>>,
       <<70096, <<"U+111D0", "U+111D1", "U+111D2", "U+111D3", "U+111D4", "U+111D5", "U+111D6", "U+111D7", "U+111D8", "U+111D9">>>>,
       <<70384, <<"U+112F0", "U+112F1", "U+112F2", "U+112F3", "U+112F4", "U+112F5", "U+112F6", "U+112F7", "U+112F8", "U+112F9">>>>,
       <<70736, <<"U+11450", "U+11451", "U+11452", "U+11453", "U+11454", "U+11455", "U+11456", "U+11457", "U+11458", "U+11459">>>>,
       <<70864, <<"U+114D0", "U+114D1", "U+114D2", "U+114D3", "U+114D4", "U+114D5", "U+114D6", "U+114D7", "U+114D8", "U+114D9">>>>,
       <<71248, <<"U+11650", "U+11651", "U+11652", "U+11653", "U+11654", "U+11655", "U+11656", "U+11657", "U+11658", "U+11659">>>>,
       <<71360, <<"U+116C0", "U+116C1", "U+116C2", "U+116C3", "U+116C4", "U+116C5", "U+116C6", "U+116C7", "U+116C8", "U+116C9">>>>,
       <<71376, <<"U+116D0", "U+116D1", "U+116D2", "U+116D3", "U+116D4", "U+116D5", "U+116D6", "U+116D7", "U+116D8", "U+116D9">>>>,
       <<71386, <<"U+116DA", "U+116DB", "U+116DC", "U+116DD", "U+116DE", "U+116DF", "U+116E0", "U+116E1", "U+116E2", "U+116E3">>>>,
       <<71472, <<"U+11730", "U+11731", "U+11732", "U+11733", "U+11734", "U+11735", "U+11736", "U+11737", "U+11738", "U+11739">>>>,
       <<71904, <<"U+118E0", "U+118E1", "U+118E2", "U+118E3", "U+118E4", "U+118E5", "U+118E6", "U+118E7", "U+118E8", "U+118E9">>>>,
       <<72016, <<"U+11950", "U+11951", "U+11952", "U+11953", "U+11954", "U+11955", "U+11956", "U+11957", "U+11958", "U+11959">>>>,
       <<72688, <<"U+11BF0", "U+11BF1", "U+11BF2", "U+11BF3", "U+11BF4", "U+11BF5", "U+11BF6", "U+11BF7", "U+11BF8", "U+11BF9">>>>,
       <<72784, <<"U+11C50", "U+11C51", "U+11C52", "U+11C53", "U+11C54", "U+11C55", "U+11C56", "U+11C57", "U+11C58", "U+11C59">>>>,
       <<73040, <<"U+11D50", "U+11D51", "U+11D52", "U+11D53", "U+11D54", "U+11D55", "U+11D56", "U+11D57", "U+11D58", "U+11D59">>>>,
       <<73120, <<"U+11DA0", "U+11DA1", "U+11DA2", "U+11DA3", "U+11DA4", "U+11DA5", "U+11DA6", "U+11DA7", "U+11DA8", "U+11DA9">>>>,
       <<73552, <<"U+11F50", "U+11F51", "U+11F52", "U+11F53", "U+11F54", "U+11F55", "U+11F56", "U+11F57", "U+11F58", "U+11F59">>>>,
       <<90416, <<"U+16130", "U+16131", "U+16132", "U+16133", "U+16134", "U+16135", "U+16136", "U+16137", "U+16138", "U+16139">>>>,
       <<92768, <<"U+16A60", "U+16A61", "U+16A62", "U+16A63", "U+16A64", "U+16A65", "U+16A66", "U+16A67", "U+16A68", "U+16A69">>>>,
       <<92864, <<"U+16AC0", "U+16AC1", "U+16AC2", "U+16AC3", "U+16AC4", "U+16AC5", "U+16AC6", "U+16AC7", "U+16AC8", "U+16AC9">>>>,
       <<93008, <<"U+16B50", "U+16B51", "U+16B52", "U+16B53", "U+16B54", "U+16B55", "U+16B56", "U+16B57", "U+16B58", "U+16B59">>>>,
       <<93552, <<"U+16D70", "U+16D71", "U+16D72", "U+16D73", "U+16D74", "U+16D75", "U+16D76", "U+16D77", "U+16D78", "U+16D79">>>>,
       <<118000, <<"U+1CCF0", "U+1CCF1", "U+1CCF2", "U+1CCF3", "U+1CCF4", "U+1CCF5", "U+1CCF6", "U+1CCF7", "U+1CCF8", "U+1CCF9">>>>,
       <<120782, <<"U+1D7CE", "U+1D7CF", "U+1D7D0", "U+1D7D1", "U+1D7D2", "U+1D7D3", "U+1D7D4", "U+1D7D5", "U+1D7D6", "U+1D7D7">>>>,
       <<120792, <<"U+1D7D8", "U+1D7D9", "U+1D7DA", "U+1D7DB", "U+1D7DC", "U+1D7DD", "U+1D7DE", "U+1D7DF", "U+1D7E0", "U+1D7E1">>>>,
       <<120802, <<"U+1D7E2", "U+1D7E3", "U+1D7E4", "U+1D7E5", "U+1D7E6", "U+1D7E7", "U+1D7E8", "U+1D7E9", "U+1D7EA", "U+1D7EB">>>>,
       <<120812, <<"U+1D7EC", "U+1D7ED", "U+1D7EE", "U+1D7EF", "U+1D7F0", "U+1D7F1", "U+1D7F2", "U+1D7F3", "U+1D7F4", "U+1D7F5">>>>,
       <<120822, <<"U+1D7F6", "U+1D7F7", "U+1D7F8", "U+1D7F9", "U+1D7FA", "U+1D7FB", "U+1D7FC", "U+1D7FD", "U+1D7FE", "U+1D7FF">>>>,
       <<123200, <<"U+1E140", "U+1E141", "U+1E142", "U+1E143", "U+1E144", "U+1E145", "U+1E146", "U+1E147", "U+1E148", "U+1E149">>>>,
       <<123632, <<"U+1E2F0", "U+1E2F1", "U+1E2F2", "U+1E2F3", "U+1E2F4", "U+1E2F5", "U+1E2F6", "U+1E2F7", "U+1E2F8", "U+1E2F9">>>>,
       <<124144, <<"U+1E4F0", "U+1E4F1", "U+1E4F2", "U+1E4F3", "U+1E4F4", "U+1E4F5", "U+1E4F6", "U+1E4F7", "U+1E4F8", "U+1E4F9">>>>,
       <<124401, <<"U+1E5F1", "U+1E5F2", "U+1E5F3", "U+1E5F4", "U+1E5F5", "U+1E5F6", "U+1E5F7", "U+1E5F8", "U+1E5F9", "U+1E5FA">>>>,
       <<125264, <<"U+1E950", "U+1E951", "U+1E952", "U+1E953", "U+1E954", "U+1E955", "U+1E956", "U+1E957", "U+1E958", "U+1E959">>>>,
       <<130032, <<"U+1FBF0", "U+1FBF1", "U+1FBF2", "U+1FBF3", "U+1FBF4", "U+1FBF5", "U+1FBF6", "U+1FBF7", "U+1FBF8", "U+1FBF9">>>> }

DecimalDigitChars == UNION { {digits[2][d] : d \in 1..10} : digits \in DecimalDigits }

\* The ten ASCII digits: the digits of the decimal text of a u64.
DigitChars == <<"0", "1", "2", "3", "4", "5", "6", "7", "8", "9">>

UpperChars == <<"A", "B", "C", "D", "E", "F", "G", "H", "I", "J", "K", "L", "M",
                "N", "O", "P", "Q", "R", "S", "T", "U", "V", "W", "X", "Y", "Z">>

LowerChars == <<"a", "b", "c", "d", "e", "f", "g", "h", "i", "j", "k", "l", "m",
                "n", "o", "p", "q", "r", "s", "t", "u", "v", "w", "x", "y", "z">>

\* A byte that is not valid UTF-8 (0xff), as it may stand in a damaged file.
BadByte == "<ff>"

NL == "\n"

\* \d of the regex crate
IsDigit(c) == c \in DecimalDigitChars

DigitVal(c) == (CHOOSE i \in 1..10 : DigitChars[i] = c) - 1

IsAsciiLetter(c) == \E i \in 1..26 : UpperChars[i] = c \/ LowerChars[i] = c

\* char::is_whitespace
IsWhitespace(c) == \E i \in 1..Len(WhiteSpace) : WhiteSpace[i][1] = c

\* The characters of WhiteSpace and DecimalDigits, each with its code point.
OtherCodePoints ==
    {WhiteSpace[i] : i \in 1..Len(WhiteSpace)}
        \cup {<<digits[2][d], digits[1] + d - 1>> : digits \in DecimalDigits, d \in 1..10}

\* The code point of a character of the model.
CodePoint(c) ==
    IF \E i \in 1..Len(AsciiChars) : AsciiChars[i] = c
    THEN 31 + (CHOOSE i \in 1..Len(AsciiChars) : AsciiChars[i] = c)
    ELSE (CHOOSE p \in OtherCodePoints : p[1] = c)[2]

\* The one element of a set of one element.  In { e : x \in {d} } the value
\* of d is worked out once, wherever e uses x.
The(S) == CHOOSE x \in S : TRUE

\* The bytes of a character in UTF-8, as a String holds it.
Utf8(c) ==
    The({ IF cp < 128 THEN <<cp>>
          ELSE IF cp < 2048 THEN <<192 + (cp \div 64), 128 + (cp % 64)>>
          ELSE IF cp < 65536
          THEN <<224 + (cp \div 4096), 128 + ((cp \div 64) % 64), 128 + (cp % 64)>>
          ELSE <<240 + (cp \div 262144), 128 + ((cp \div 4096) % 64),
                 128 + ((cp \div 64) % 64), 128 + (cp % 64)>> : cp \in {CodePoint(c)} })

RECURSIVE AsBytes(_)
\* str::as_bytes
AsBytes(s) == IF s = <<>> THEN <<>> ELSE Utf8(s[1]) \o AsBytes(Tail(s))

\* u8::to_ascii_lowercase
AsciiLower(c) ==
    IF \E i \in 1..26 : UpperChars[i] = c
    THEN LowerChars[CHOOSE i \in 1..26 : UpperChars[i] = c]
    ELSE c

\* str::to_ascii_lowercase
ToAsciiLowercase(s) == [i \in 1..Len(s) |-> AsciiLower(s[i])]

\* str::trim: leading and trailing whitespace removed
Trim(s) ==
    LET keep == {i \in 1..Len(s) : ~IsWhitespace(s[i])}
    IN  IF keep = {} THEN <<>>
        ELSE LET lo == CHOOSE i \in keep : \A j \in keep : i <= j
                 hi == CHOOSE i \in keep : \A j \in keep : j <= i
             IN  SubSeq(s, lo, hi)

\* str::starts_with
StartsWith(s, p) == Len(p) <= Len(s) /\ SubSeq(s, 1, Len(p)) = p

\* str::contains: p occurs in s as a contiguous piece
Contains(s, p) ==
    \E i \in 1..(Len(s) - Len(p) + 1) : SubSeq(s, i, i + Len(p) - 1) = p

\* ------------------------------------------------------------------------
\* EngineName (src/src/tcec.rs)
\* ------------------------------------------------------------------------

\* EngineName::new keeps the raw name as given.
EngineName_new(name) == name

\* (\d+)(\.\d+)?(\.\d+)? over the whole of t: one to three runs of digits
\* separated by single dots.  That is: digits and dots only, no dot first,
\* last or next to a dot, and at most two dots.
IsVersionNumber(t) ==
    /\ Len(t) >= 1
    /\ \A i \in 1..Len(t) :
           \/ IsDigit(t[i])
           \/ (t[i] = "." /\ i > 1 /\ i < Len(t) /\ t[i + 1] # ".")
    /\ Cardinality({i \in 1..Len(t) : t[i] = "."}) <= 2

\* The regex " v?(\d+)(\.\d+)?(\.\d+)?$" matches s from position i to the end:
\* a space, a v or none, and a version number.
VersionMatchAt(s, i) ==
    /\ i \in 1..Len(s)
    /\ s[i] = " "
    /\ IsVersionNumber(SubSeq(s, IF i < Len(s) /\ s[i + 1] = "v" THEN i + 2 ELSE i + 1,
                              Len(s)))

\* version_regex.replace_all(&name, ""): the leftmost match is removed (the
\* pattern is anchored at the end, so there is at most one).
StripVersion(s) ==
    LET at == {i \in 1..Len(s) : VersionMatchAt(s, i)}
    IN  IF at = {} THEN s
        ELSE SubSeq(s, 1, (CHOOSE i \in at : \A j \in at : i <= j) - 1)

\* The regex " \d{4}[a-zA-Z]" matches s at positions i..i+5.
DateVersionMatchAt(s, i) ==
    /\ i >= 1
    /\ i + 5 <= Len(s)
    /\ s[i] = " "
    /\ \A k \in 1..4 : IsDigit(s[i + k])
    /\ IsAsciiLetter(s[i + 5])

RECURSIVE StripDateVersionsFrom(_, _)
\* date_version_regex.replace_all(&name, ""): every match, leftmost first
\* and not overlapping, is removed; the pattern is not anchored.
StripDateVersionsFrom(s, i) ==
    IF i > Len(s) THEN <<>>
    ELSE IF DateVersionMatchAt(s, i) THEN StripDateVersionsFrom(s, i + 6)
    ELSE <<s[i]>> \o StripDateVersionsFrom(s, i + 1)

StripDateVersions(s) == StripDateVersionsFrom(s, 1)

\* normalize without its first step, the lower-casing.
normalize_keep_case(name) ==
    Trim(StripDateVersions(Trim(StripVersion(name))))

\* EngineName::normalize
normalize(name) ==
    LET lowered == ToAsciiLowercase(name)
        noVersion == Trim(StripVersion(lowered))
    IN  Trim(StripDateVersions(noVersion))

\* matches with the raw form of self in place of its normalized form.
matches_raw_self(self, name) == Contains(self, normalize(name))

\* matches with the containment the other way round.
matches_reversed(self, name) == Contains(normalize(name), normalize(self))

\* EngineName::matches
matches(self, name) == Contains(normalize(self), normalize(name))

\* impl PartialEq for EngineName
EngineName_eq(a, b) == normalize(a) = normalize(b)

\* A hash of the raw form.
EngineName_hash_raw(self) == self

\* impl Hash for EngineName: the text handed to the hasher
EngineName_hash(self) == normalize(self)

\* impl Display for EngineName
EngineName_fmt(self) == self

\* ------------------------------------------------------------------------
\* Pgn (src/src/tcec_pgn.rs)
\* ------------------------------------------------------------------------

BOOK_MOVE_COMMENT_PREFIX == <<"b", "o", "o", "k", ",">>

EVENT_KEY == "Event"

WHITE_HEADER_KEY == "White"

BLACK_HEADER_KEY == "Black"

DATE_HEADER_KEY == "Date"

RECURSIVE TakeWhileInBook(_)
\* moves.iter().take_while(|mv| mv.in_book)
TakeWhileInBook(moves) ==
    IF moves = <<>> \/ ~moves[1].in_book THEN <<>>
    ELSE <<moves[1]>> \o TakeWhileInBook(Tail(moves))

\* opening as every book move of the game, wherever it stands.
opening_every_book_move(pgn) == SelectSeq(pgn.moves, LAMBDA mv : mv.in_book)

\* Pgn::opening
opening(pgn) == TakeWhileInBook(pgn.moves)

\* out_of_book that looks at the first move only.
out_of_book_first_move(pgn) == pgn.moves # <<>> /\ ~pgn.moves[1].in_book

\* Pgn::out_of_book
out_of_book(pgn) == \E i \in 1..Len(pgn.moves) : ~pgn.moves[i].in_book

\* has_player that looks at the white player only.
has_player_white_only(pgn, player) == matches(pgn.white_player, player)

\* Pgn::has_player
has_player(pgn, player) ==
    matches(pgn.white_player, player) \/ matches(pgn.black_player, player)

\* A hash over every move of the game, not only its opening.
HashStream_all_moves(pgn) ==
    <<normalize(pgn.white_player), normalize(pgn.black_player), pgn.date>>
        \o [i \in 1..Len(pgn.moves) |-> pgn.moves[i].notation]

\* A hash that leaves the date out.
HashStream_without_date(pgn) ==
    <<normalize(pgn.white_player), normalize(pgn.black_player)>>
        \o [i \in 1..Len(TakeWhileInBook(pgn.moves)) |->
                TakeWhileInBook(pgn.moves)[i].notation]

\* impl Hash for Pgn: the strings written to the hasher, in order.
HashStream(pgn) ==
    <<EngineName_hash(pgn.white_player), EngineName_hash(pgn.black_player), pgn.date>>
        \o [i \in 1..Len(opening(pgn)) |-> opening(pgn)[i].notation]

RECURSIVE HashBytes(_)
\* impl Hash for str, once for each string of the stream: Hasher::write_str
\* writes the bytes of the string and then the byte 0xff.
HashBytes(stream) ==
    IF stream = <<>> THEN <<>>
    ELSE AsBytes(stream[1]) \o <<255>> \o HashBytes(Tail(stream))

\* ------------------------------------------------------------------------
\* DefaultHasher (std::hash): SipHash-1-3
\* A 64-bit word is its eight bytes, the least significant first.
\* ------------------------------------------------------------------------

\* a ^ b for a and b below 4: XorTable[a + 1][b + 1]
XorTable ==
    << <<0, 1, 2, 3>>,
       <<1, 0, 3, 2>>,
       <<2, 3, 0, 1>>,
       <<3, 2, 1, 0>> >>

\* u8 ^ u8, two bits at a time
XorByte(a, b) ==
    64 * XorTable[(a \div 64) + 1][(b \div 64) + 1]
        + 16 * XorTable[((a \div 16) % 4) + 1][((b \div 16) % 4) + 1]
        + 4 * XorTable[((a \div 4) % 4) + 1][((b \div 4) % 4) + 1]
        + XorTable[(a % 4) + 1][(b % 4) + 1]

\* u64 ^ u64, byte by byte
Xor64(a, b) == [i \in 1..8 |-> XorByte(a[i], b[i])] \o <<>>

RECURSIVE AddBytes(_, _, _, _)
AddBytes(a, b, i, carry) ==
    IF i > 8 THEN <<>>
    ELSE The({ <<sum % 256>> \o AddBytes(a, b, i + 1, sum \div 256) :
               sum \in {a[i] + b[i] + carry} })

\* u64::wrapping_add
Add64(a, b) == AddBytes(a, b, 1, 0)

\* u64::rotate_left by r bits: a byte of the result is the low bits of one
\* byte of w, shifted up, and the high bits of the byte below it.
Rotl64(w, r) ==
    [i \in 1..8 |->
        ((w[((i - (r \div 8) + 15) % 8) + 1] * (2 ^ (r % 8))) % 256)
            + (w[((i - (r \div 8) + 14) % 8) + 1] \div (2 ^ (8 - (r % 8))))] \o <<>>

\* Half of a SipRound, on <<a, b, c, d>>:
\* a += b; b = rotl(b, r1) ^ a; a = rotl(a, 32); c += d; d = rotl(d, r2) ^ c.
HalfRound(v, r1, r2) ==
    The({ <<Rotl64(s, 32), Xor64(x, s), t, Xor64(y, t)>> :
          s \in {Add64(v[1], v[2])}, x \in {Rotl64(v[2], r1)},
          t \in {Add64(v[3], v[4])}, y \in {Rotl64(v[4], r2)} })

\* One SipRound on the hasher state sip = <<v0, v1, v2, v3>>: the first half on
\* <<v0, v1, v2, v3>> with 13 and 16, the second on <<v2, v1, v0, v3>> with
\* 17 and 21.
SipRound(sip) ==
    The({ <<g[3], g[2], g[1], g[4]>> :
          g \in { HalfRound(<<h[3], h[2], h[1], h[4]>>, 17, 21) :
                  h \in { HalfRound(v, 13, 16) : v \in {sip} } } })

\* The state a hasher keyed with <<k0, k1>> starts from.
SipInit(key) ==
    <<Xor64(key[1], <<117, 101, 115, 112, 101, 109, 111, 115>>),
      Xor64(key[2], <<109, 111, 100, 110, 97, 114, 111, 100>>),
      Xor64(key[1], <<97, 114, 101, 110, 101, 103, 121, 108>>),
      Xor64(key[2], <<115, 101, 116, 121, 98, 100, 101, 116>>)>>

\* One word m of the message is mixed in: v3 ^= m; a round; v0 ^= m.
SipWord(sip, word) ==
    The({ The({ <<Xor64(w[1], m), w[2], w[3], w[4]>> :
                w \in {SipRound(<<v[1], v[2], v[3], Xor64(v[4], m)>>)} }) :
          v \in {sip}, m \in {word} })

RECURSIVE SipCompress(_, _, _)
\* Every whole word of eight bytes, from byte i on, is mixed in.
SipCompress(sip, bytes, i) ==
    IF i + 7 > Len(bytes) THEN sip
    ELSE The({ SipCompress(v, bytes, i + 8) :
               v \in {SipWord(sip, SubSeq(bytes, i, i + 7))} })

\* SipHasher13::finish over all the bytes written: the last word is the
\* bytes left over and, in its top byte, the length; v2 ^= 0xff; then three
\* rounds.
SipHash13(key, written) ==
    The({ The({ Xor64(Xor64(y[1], y[2]), Xor64(y[3], y[4])) :
                y \in { SipRound(SipRound(SipRound(
                            <<w[1], w[2], Xor64(w[3], <<255, 0, 0, 0, 0, 0, 0, 0>>), w[4]>>))) :
                        w \in { SipWord(SipCompress(SipInit(key), bytes, 1),
                                        SubSeq(bytes, Len(bytes) - (Len(bytes) % 8) + 1,
                                               Len(bytes))
                                            \o [i \in 1..(7 - (Len(bytes) % 8)) |-> 0]
                                            \o <<Len(bytes) % 256>>) } } }) :
          bytes \in {written} })

\* DefaultHasher::new(): the keys are 0 and 0, in every process alike.
DefaultHasher_new == <<[i \in 1..8 |-> 0], [i \in 1..8 |-> 0]>>

\* A u64 is held as three limbs <<hi, mid, lo>> in base 10^9, each below 10^9:
\* its value is hi * 10^18 + mid * 10^9 + lo, at most U64_MAX.
U64(n) == <<0, 0, n>>

\* u64::MAX, 18446744073709551615
U64_MAX == <<18, 446744073, 709551615>>

RECURSIVE WordValue(_, _, _)
\* The value of the bytes w[1..k] of a word, <<a, b, c, d>> for
\* a * 10^18 + b * 10^12 + c * 10^6 + d, given that of the bytes above them.
WordValue(w, k, above) ==
    IF k = 0 THEN above
    ELSE The({ WordValue(w, k - 1,
                         <<256 * u[1] + (b \div 1000000), b % 1000000,
                           c % 1000000, d % 1000000>>) :
               u \in {above},
               d \in {256 * above[4] + w[k]},
               c \in {256 * above[3] + ((256 * above[4] + w[k]) \div 1000000)},
               b \in {256 * above[2]
                        + ((256 * above[3] + ((256 * above[4] + w[k]) \div 1000000))
                             \div 1000000)} })

\* Hasher::finish: the u64 of the hasher <<key, bytes written>>, in limbs.
HasherFinish(key, bytes) ==
    The({ <<v[1], 1000 * v[2] + (v[3] \div 1000), 1000000 * (v[3] % 1000) + v[4]>> :
          v \in { WordValue(w, 8, <<0, 0, 0, 0>>) : w \in {SipHash13(key, bytes)} } })

\* ------------------------------------------------------------------------
\* PgnInfoBuilder, the visitor (src/src/tcec_pgn.rs)
\* ------------------------------------------------------------------------

\* PgnInfoBuilder::new
PgnInfoBuilder_new ==
    [white_player |-> None, black_player |-> None, date |-> None, event |-> None,
     moves |-> <<>>, last_san |-> None, last_comment |-> None]

\* An unwrap_or whose default is a book comment.
UnwrapOr_book_comment(opt) == IF opt = None THEN <<"b", "o", "o", "k", ",">> ELSE opt[1]

\* Option::unwrap_or(String::new())
UnwrapOrEmpty(opt) == IF opt = None THEN <<>> ELSE opt[1]

\* PgnInfoBuilder::add_move
add_move(self, s, c) ==
    [self EXCEPT !.moves =
        Append(@, [notation |-> s, in_book |-> StartsWith(c, BOOK_MOVE_COMMENT_PREFIX)])]

\* A header that keeps the first value seen for a key.
header_first_write_wins(self, k, v) ==
    LET s1 == IF k = EVENT_KEY /\ self.event = None
              THEN [self EXCEPT !.event = Some(v)] ELSE self
        s2 == IF k = WHITE_HEADER_KEY /\ s1.white_player = None
              THEN [s1 EXCEPT !.white_player = Some(v)] ELSE s1
        s3 == IF k = BLACK_HEADER_KEY /\ s2.black_player = None
              THEN [s2 EXCEPT !.black_player = Some(v)] ELSE s2
    IN  IF k = DATE_HEADER_KEY /\ s3.date = None
        THEN [s3 EXCEPT !.date = Some(v)] ELSE s3

\* Visitor::header: four independent tests of the key
header(self, k, v) ==
    LET s1 == IF k = EVENT_KEY THEN [self EXCEPT !.event = Some(v)] ELSE self
        s2 == IF k = WHITE_HEADER_KEY THEN [s1 EXCEPT !.white_player = Some(v)] ELSE s1
        s3 == IF k = BLACK_HEADER_KEY THEN [s2 EXCEPT !.black_player = Some(v)] ELSE s2
    IN  IF k = DATE_HEADER_KEY THEN [s3 EXCEPT !.date = Some(v)] ELSE s3

\* san that commits the arriving move with the comment of the pending one.
san_commits_arriving_move(self, s) ==
    LET committed ==
            IF self.last_san # None
            THEN add_move(self, s, UnwrapOrEmpty(self.last_comment))
            ELSE self
    IN  [committed EXCEPT !.last_comment = None, !.last_san = Some(s)]

\* san that keeps a comment seen before the first move for that move.
san_buffers_early_comment(self, s) ==
    IF self.last_san # None
    THEN [add_move(self, self.last_san[1], UnwrapOrEmpty(self.last_comment))
             EXCEPT !.last_comment = None, !.last_san = Some(s)]
    ELSE [self EXCEPT !.last_san = Some(s)]

\* Visitor::san
san(self, s) ==
    LET committed ==
            IF self.last_san # None
            THEN add_move(self, self.last_san[1], UnwrapOrEmpty(self.last_comment))
            ELSE self
    IN  [committed EXCEPT !.last_comment = None, !.last_san = Some(s)]

\* comment that keeps the first comment seen since the buffer was cleared.
comment_keeps_first(self, c) ==
    IF self.last_comment = None THEN [self EXCEPT !.last_comment = Some(c)] ELSE self

\* Visitor::comment
comment(self, c) == [self EXCEPT !.last_comment = Some(c)]

\* A begin_variation that lets the reader walk into the variation.
begin_variation_no_skip(self) == [self |-> self, skip |-> FALSE]

\* Visitor::begin_variation: the builder is left as it was and the call
\* returns Skip(true).
begin_variation(self) == [self |-> self, skip |-> TRUE]

\* An end_game that forgets the move still pending.
EndGameCommit_drops_pending(self) == self

\* The builder once end_game has handled the last move seen.
EndGameCommit(self) ==
    IF self.last_san # None
    THEN add_move(self, self.last_san[1], UnwrapOrEmpty(self.last_comment))
    ELSE self

\* The four assert_ne!(.., None) of end_game all pass.
HeadersPresent(self) ==
    /\ self.white_player # None
    /\ self.black_player # None
    /\ self.date # None
    /\ self.event # None

\* Visitor::end_game: what the call does.  kind "panic" is a failed assert_ne!,
\* which unwinds out of the caller; kind "ok" carries the Pgn.
end_game(self) ==
    LET done == EndGameCommit(self)
    IN  IF ~HeadersPresent(done)
        THEN [kind |-> "panic", pgn |-> None, error |-> "assertion failed"]
        ELSE [kind |-> "ok",
              pgn |-> Some([white_player |-> EngineName_new(done.white_player[1]),
                            black_player |-> EngineName_new(done.black_player[1]),
                            date |-> done.date[1],
                            event |-> done.event[1],
                            moves |-> done.moves]),
              error |-> ""]

RECURSIVE Visit(_, _), VisitAll(_, _)

\* What the reader does with one token.  The tokens of a variation are in
\* tok.inner: on Skip(true) the reader passes over them without calling the
\* visitor, otherwise it hands them to the visitor one by one (end_variation
\* is the trait's default, which does nothing).
Visit(self, tok) ==
    CASE tok.type = "header" -> header(self, tok.key, tok.text)
      [] tok.type = "san" -> san(self, tok.text)
      [] tok.type = "comment" -> comment(self, tok.text)
      [] tok.type = "variation" ->
            LET entered == begin_variation(self)
            IN  IF entered.skip THEN entered.self
                ELSE VisitAll(entered.self, tok.inner)

VisitAll(self, toks) ==
    IF toks = <<>> THEN self ELSE VisitAll(Visit(self, toks[1]), Tail(toks))

\* get_pgn_info that takes a text with no game in it for a game of no token.
get_pgn_info_blank_as_game(text) ==
    IF text.shape = "broken"
    THEN [kind |-> "err", pgn |-> None, error |-> "reader error"]
    ELSE end_game(VisitAll(PgnInfoBuilder_new, text.tokens))

\* get_pgn_info.  A text is [shape, tokens]: shape "blank" is a text with no
\* game in it (read_game returns Ok(None)), shape "broken" one the reader gives
\* up on with an error after the tokens, shape "game" a game of these tokens.
get_pgn_info(text) ==
    IF text.shape = "blank"
    THEN [kind |-> "err", pgn |-> None, error |-> "Empty PGN"]
    ELSE IF text.shape = "broken"
    THEN [kind |-> "err", pgn |-> None, error |-> "reader error"]
    ELSE end_game(VisitAll(PgnInfoBuilder_new, text.tokens))

\* ------------------------------------------------------------------------
\* Decimal text of a u64 (core::fmt and core::num, as used by state.rs)
\* ------------------------------------------------------------------------

RECURSIVE Pow10(_)
Pow10(k) == IF k = 0 THEN 1 ELSE 10 * Pow10(k - 1)

\* The nine decimal digits of a limb, most significant first.
LimbDigits(n) == [i \in 1..9 |-> DigitChars[((n \div Pow10(9 - i)) % 10) + 1]]

RECURSIVE StripLeadingZeros(_)
StripLeadingZeros(d) ==
    IF d # <<>> /\ d[1] = "0" THEN StripLeadingZeros(Tail(d)) ELSE d

\* impl Display for u64: the decimal digits, no sign, no leading zero
ToDecimal(u) ==
    LET d == StripLeadingZeros(LimbDigits(u[1]) \o LimbDigits(u[2]) \o LimbDigits(u[3]))
    IN  IF d = <<>> THEN <<"0">> ELSE d

RECURSIVE DigitsValue(_, _)
\* The number a run of at most nine digits denotes.
DigitsValue(acc, d) ==
    IF d = <<>> THEN acc ELSE DigitsValue(acc * 10 + DigitVal(d[1]), Tail(d))

\* The limbs of a run of at most 27 digits.
LimbsOf(d) ==
    LET padded == [i \in 1..(27 - Len(d)) |-> "0"] \o d
    IN  <<DigitsValue(0, SubSeq(padded, 1, 9)),
          DigitsValue(0, SubSeq(padded, 10, 18)),
          DigitsValue(0, SubSeq(padded, 19, 27))>>

LimbsLeq(a, b) ==
    \/ a[1] < b[1]
    \/ a[1] = b[1] /\ a[2] < b[2]
    \/ a[1] = b[1] /\ a[2] = b[2] /\ a[3] <= b[3]

\* The digits of a line once an optional leading "+" is taken off.
Unsigned(line) == IF line # <<>> /\ line[1] = "+" THEN Tail(line) ELSE line

\* str::parse::<u64> succeeds: the text is not empty, is an optional "+" and
\* then one or more decimal digits, and the number fits in 64 bits.
ParseOk(line) ==
    LET d == Unsigned(line)
        canon == StripLeadingZeros(d)
    IN  /\ Len(d) >= 1
        /\ \A i \in 1..Len(d) : \E k \in 1..10 : DigitChars[k] = d[i]
        /\ Len(canon) <= 20
        /\ LimbsLeq(LimbsOf(canon), U64_MAX)

\* The value str::parse::<u64> returns when it succeeds.
ParseValue(line) == LimbsOf(StripLeadingZeros(Unsigned(line)))

RECURSIVE Lines(_)
\* str::lines: the text is cut after each "\n"; the "\n" and a "\r" before it
\* are taken off; what follows the last "\n", if anything, is the last line.
Lines(s) ==
    IF s = <<>> THEN <<>>
    ELSE LET nls == {i \in 1..Len(s) : s[i] = NL}
         IN  IF nls = {} THEN <<s>>
             ELSE LET i == CHOOSE k \in nls : \A j \in nls : k <= j
                      raw == SubSeq(s, 1, i - 1)
                      line == IF raw # <<>> /\ raw[Len(raw)] = "\r"
                              THEN SubSeq(raw, 1, Len(raw) - 1) ELSE raw
                  IN  <<line>> \o Lines(SubSeq(s, i + 1, Len(s)))

\* Every line of the text parses: no .expect("Bad state file") fails.
AllLinesParse(s) == \A i \in 1..Len(Lines(s)) : ParseOk(Lines(s)[i])

\* contents.lines().map(parse).collect::<HashSet<u64>>()
ParsedSet(s) == {ParseValue(Lines(s)[i]) : i \in 1..Len(Lines(s))}

\* The text a writeln!(file, "{}", hash) hands to the file: the digits in one
\* write and the line end in another.
LineOf(u) == ToDecimal(u) \o <<NL>>

\* ------------------------------------------------------------------------
\* The feed and the configurations the polling loop is run against
\* ------------------------------------------------------------------------

HeaderTok(k, v) == [type |-> "header", key |-> k, text |-> v, inner |-> <<>>]

SanTok(s) == [type |-> "san", key |-> "", text |-> s, inner |-> <<>>]

CommentTok(c) == [type |-> "comment", key |-> "", text |-> c, inner |-> <<>>]

\* A variation "( d4 {d=1,} )" of the movetext: its tokens are in inner.
VariationTok ==
    [type |-> "variation", key |-> "", text |-> <<>>,
     inner |-> <<SanTok(<<"d", "4">>), CommentTok(<<"d", "=", "1", ",">>)>>]

NameLu == <<"L", "u", " ", "2">>

NameCo == <<"C", "o", " ", "2", "0", "2", "5", "b">>

NameMi == <<"M", "i">>

Date01 == <<"0", "1">>

Date02 == <<"0", "2">>

EventT == <<"T">>

SanE4 == <<"e", "4">>

SanC5 == <<"c", "5">>

SanD4 == <<"d", "4">>

BookComment == <<"b", "o", "o", "k", ",", " ", "m", "b">>

InfoComment == <<"d", "=", "1", ",">>

HeadersOf(w, b) ==
    <<HeaderTok("Event", EventT), HeaderTok("Site", <<"s">>), HeaderTok("Date", Date01),
      HeaderTok("White", w), HeaderTok("Black", b)>>

\* A game still in its opening: every move carries a book comment.
TextInBook ==
    [shape |-> "game",
     tokens |-> HeadersOf(NameLu, NameCo)
                \o <<SanTok(SanE4), CommentTok(BookComment),
                      SanTok(SanC5), CommentTok(BookComment)>>]

\* The same game one move later, out of book.
TextA ==
    [shape |-> "game",
     tokens |-> HeadersOf(NameLu, NameCo)
                \o <<SanTok(SanE4), CommentTok(BookComment),
                      SanTok(SanC5), CommentTok(InfoComment)>>]

\* Another pairing, out of book from its first move.
TextB ==
    [shape |-> "game",
     tokens |-> HeadersOf(NameMi, NameCo) \o <<SanTok(SanE4), CommentTok(InfoComment)>>]

\* A game published without its Date tag.
TextNoDate ==
    [shape |-> "game",
     tokens |-> <<HeaderTok("Event", EventT), HeaderTok("White", NameLu),
                  HeaderTok("Black", NameCo), SanTok(SanE4), CommentTok(InfoComment)>>]

\* A game that has its tags and no move yet.
TextNoMoves == [shape |-> "game", tokens |-> HeadersOf(NameLu, NameCo)]

TextBlank == [shape |-> "blank", tokens |-> <<>>]

TextBroken == [shape |-> "broken", tokens |-> <<HeaderTok("Event", EventT)>>]

Feed == {TextInBook, TextNoMoves, TextA, TextB, TextNoDate, TextBlank, TextBroken}

\* NotifyConfig.engines: engine identifier -> the users to mention
ConfigLu == (<<"l", "u">> :> {"u1"}) @@ (<<"C", "o">> :> {"u1", "u2"})

ConfigMi == (<<"M", "i">> :> {"u2"})

NotifyConfigs == {ConfigLu, ConfigMi}

EmptyConfig == [e \in {} |-> {}]

\* The streams whose hash is worked out once and kept: two players, a date
\* and an opening of at most two moves, of the names, dates and moves the
\* games of the model are made of.
KeptStreams ==
    { <<w, b, d>> \o ms :
          w \in {EngineName_hash(n) : n \in {NameLu, NameCo, NameMi}},
          b \in {EngineName_hash(n) : n \in {NameLu, NameCo, NameMi}},
          d \in {Date01, Date02},
          ms \in {<<>>} \cup {<<x>> : x \in {SanE4, SanC5, SanD4}}
                       \cup {<<x, y>> : x \in {SanE4, SanC5, SanD4},
                                        y \in {SanE4, SanC5, SanD4}} }

\* Their hashes: <<stream, hash>>.
KeptHashes ==
    {<<s, HasherFinish(DefaultHasher_new, HashBytes(s))>> : s \in KeptStreams}

\* The games of the feed.
FeedGames == {get_pgn_info(t).pgn[1] : t \in {t \in Feed : get_pgn_info(t).kind = "ok"}}

\* Their hashes: <<game, hash>>.
FeedHashes ==
    {<<g, HasherFinish(DefaultHasher_new, HashBytes(HashStream(g)))>> : g \in FeedGames}

\* Pgn::as_hash: a new DefaultHasher, the game hashed into it, finish.  The
\* hash of a game of the feed is read from FeedHashes and the hash of a
\* stream of KeptStreams from KeptHashes, where the same computation has been
\* done.
as_hash(pgn) ==
    IF pgn \in FeedGames THEN (CHOOSE p \in FeedHashes : p[1] = pgn)[2]
    ELSE The({ IF s \in KeptStreams THEN (CHOOSE p \in KeptHashes : p[1] = s)[2]
               ELSE HasherFinish(DefaultHasher_new, HashBytes(s)) :
               s \in {HashStream(pgn)} })

\* The equality #[derive(PartialEq)] would give: field by field.
Pgn_eq_derived(a, b) == a = b

\* impl PartialEq for Pgn
Pgn_eq(a, b) == as_hash(a) = as_hash(b)

\* What the backing record may hold when the process first starts, if it is
\* there at all: a game seen by an earlier run, and after it a line that is
\* no number, or a byte that is no text.
InitialFiles ==
    LET seen == LineOf(as_hash(get_pgn_info(TextA).pgn[1]))
    IN  { seen, seen \o <<"x", NL>>, seen \o <<BadByte>> }

\* ------------------------------------------------------------------------
\* State
\* ------------------------------------------------------------------------

VARIABLES
    pc,             \* where the process is in main, or how it ended
    run,            \* process starts so far
    turns,          \* polling turns begun so far
    file,           \* state.bin: the bytes of the backing record
    file_exists,    \* state.bin exists on disk
    state,          \* SeenGames.state, the in-memory set
    notify_config,  \* main's notify_config
    game,           \* the game of the current turn (Option<Pgn>)
    fetched,        \* how get_current_game ended in the current turn
    load_info,      \* what the SeenGames::load of this run met and returned
    file_before,    \* the record as it was when the current add began
    notify_log,     \* the notify calls of this run: [turn, hash, ok, mentions]
    add_log,        \* the add calls that returned in this run: [turn, hash, ok]
    durable,        \* hashes some add call returned Ok for, over all runs
    write_faults,   \* writes to the record that have failed, over all runs
    builder,        \* the PgnInfoBuilder of a parse in progress
    visited,        \* the tokens the reader has handed to the visitor
    fed,            \* how many of them came after the tags the parse starts from
    parsed,         \* the result of the parse, once the game has ended
    reparsed,       \* the result of parsing the same text once more
    again,          \* the visitor of that second call, and the tokens it has been handed
    hashes,         \* the identity hash taken after each of the two parses
    name_a,         \* a raw engine name
    name_b,         \* a second raw name: another engine, or a candidate
    name_out,       \* what an EngineName operation on them returned
    pgn_a,          \* a game
    pgn_b,          \* the game again, with some of its parts changed
    edits,          \* how many changes have been made to pgn_b
    pgn_out,        \* what a Pgn operation on the two games returned
    shape,          \* the shape of the text being parsed, as get_pgn_info has it
    new_notify_config   \* main's new_notify_config: what this turn's refresh returned

vars ==
    <<pc, run, turns, file, file_exists, state, notify_config, game, fetched,
      load_info, file_before, notify_log, add_log, durable, write_faults,
      builder, visited, fed, parsed, reparsed, again, hashes,
      name_a, name_b, name_out, pgn_a, pgn_b, edits, pgn_out, shape,
      new_notify_config>>

parse_vars == <<builder, visited, fed, parsed, reparsed, again, hashes, shape>>

name_vars == <<name_a, name_b, name_out>>

game_vars == <<pgn_a, pgn_b, edits, pgn_out>>

history_vars == <<notify_log, add_log, durable, write_faults>>

\* A game with nothing in it, held where no game is under study.
NoGame ==
    [white_player |-> <<>>, black_player |-> <<>>, date |-> <<>>, event |-> <<>>,
     moves |-> <<>>]

\* No name and no game is under study.
NamesIdle == name_a = <<>> /\ name_b = <<>> /\ name_out = None

GamesIdle == pgn_a = NoGame /\ pgn_b = NoGame /\ edits = 0 /\ pgn_out = None

\* load_info: done, the call has been made; missing, state.bin was not there;
\* refused, the operating system refused the open; read_ok, read_to_string
\* returned Ok; result, "ok" for Ok(store), "err" for Err(e), "panic" for the
\* failed .expect("Bad state file"); loaded, the hashes of the store returned.
NoLoad ==
    [done |-> FALSE, missing |-> FALSE, refused |-> FALSE, read_ok |-> FALSE,
     result |-> "none", loaded |-> {}]

\* ------------------------------------------------------------------------
\* SeenGames (src/src/state.rs)
\* ------------------------------------------------------------------------

\* An open without .create(true): a missing file is an error.
OpenCreates_off == FALSE

\* OpenOptions::create(true): a missing file is created by the open.
OpenCreates == TRUE

\* The places a read of the bytes can fail at: after any number of whole
\* blocks, or after the last byte.
ReadStops(bytes) ==
    {k \in 0..Len(bytes) : k = Len(bytes) \/ k % ReadBlock = 0}

\* What read_to_string leaves in `contents`.  read_stop = -1 is a read that
\* reaches the end of the file; any other value is an I/O error met after
\* that many bytes.  Bytes that are not UTF-8 are an error too, and then the
\* string is left empty.  The caller throws the Result away.
ReadToString(bytes, read_stop) ==
    LET got == IF read_stop = -1 THEN bytes ELSE SubSeq(bytes, 1, read_stop)
    IN  IF \E i \in 1..Len(got) : got[i] = BadByte THEN <<>> ELSE got

ReadOk(bytes, read_stop) ==
    read_stop = -1 /\ \A i \in 1..Len(bytes) : bytes[i] # BadByte

\* SeenGames::load, called at main.rs:41 with .expect("Unable to load state").
\* open_fails: the operating system refuses the open (or the create).
SeenGames_load(open_fails, read_stop) ==
    /\ pc = "boot"
    /\ read_stop \in {-1} \cup ReadStops(file)
    /\ LET missing == ~file_exists
           open_ok == ~open_fails /\ (file_exists \/ OpenCreates)
           contents == ReadToString(file, read_stop)
       IN  IF ~open_ok
           THEN /\ pc' = "panicked"
                /\ load_info' = [done |-> TRUE, missing |-> missing, refused |-> open_fails,
                                 read_ok |-> FALSE, result |-> "err", loaded |-> {}]
                /\ UNCHANGED <<file_exists, state>>
           ELSE /\ file_exists' = TRUE
                /\ IF AllLinesParse(contents)
                   THEN /\ pc' = "config"
                        /\ state' = ParsedSet(contents)
                        /\ load_info' = [done |-> TRUE, missing |-> missing,
                                         refused |-> FALSE,
                                         read_ok |-> ReadOk(file, read_stop),
                                         result |-> "ok",
                                         loaded |-> ParsedSet(contents)]
                   ELSE /\ pc' = "panicked"
                        /\ load_info' = [done |-> TRUE, missing |-> missing,
                                         refused |-> FALSE,
                                         read_ok |-> ReadOk(file, read_stop),
                                         result |-> "panic", loaded |-> {}]
                        /\ UNCHANGED state
    /\ UNCHANGED <<run, turns, file, notify_config, game, fetched, file_before>>
    /\ UNCHANGED history_vars
    /\ UNCHANGED parse_vars
    /\ UNCHANGED <<name_vars, game_vars>>
    /\ UNCHANGED new_notify_config

Load == \E open_fails \in BOOLEAN : \E read_stop \in -1..Len(file) :
    SeenGames_load(open_fails, read_stop)

\* A store that never recognises a game.
SeenGames_contains_never(g) == FALSE

\* SeenGames::contains
SeenGames_contains(g) == as_hash(g) \in state

\* SeenGames::add, its first statement: self.state.insert(game.as_hash())
SeenGames_add_insert ==
    /\ pc = "add"
    /\ state' = state \cup {as_hash(game[1])}
    /\ file_before' = file
    /\ pc' = "write"
    /\ UNCHANGED <<run, turns, file, file_exists, notify_config, game, fetched, load_info>>
    /\ UNCHANGED history_vars
    /\ UNCHANGED parse_vars
    /\ UNCHANGED <<name_vars, game_vars>>
    /\ UNCHANGED new_notify_config

\* An add that takes the hash out of the set again when the write fails.
SeenGames_add_write_rollback(n) ==
    /\ pc = "write"
    /\ \E hash \in {as_hash(game[1])} : \E line \in {LineOf(hash)} :
           /\ n \in 0..Len(line)
           /\ n < Len(line) => write_faults < MaxWriteFaults
           /\ write_faults' = IF n = Len(line) THEN write_faults ELSE write_faults + 1
           /\ file' = file \o SubSeq(line, 1, n)
           /\ add_log' = Append(add_log, [turn |-> turns, hash |-> hash,
                                          ok |-> n = Len(line)])
           /\ durable' = IF n = Len(line) THEN durable \cup {hash} ELSE durable
           /\ state' = IF n = Len(line) THEN state ELSE state \ {hash}
    /\ pc' = "sleep"
    /\ UNCHANGED <<run, turns, file_exists, notify_config, game, fetched,
                   load_info, file_before>>
    /\ UNCHANGED notify_log
    /\ UNCHANGED parse_vars
    /\ UNCHANGED <<name_vars, game_vars>>
    /\ UNCHANGED new_notify_config

\* An add over a file opened to be overwritten, not appended to.
SeenGames_add_write_truncating(n) ==
    /\ pc = "write"
    /\ \E hash \in {as_hash(game[1])} : \E line \in {LineOf(hash)} :
           /\ n \in 0..Len(line)
           /\ n < Len(line) => write_faults < MaxWriteFaults
           /\ write_faults' = IF n = Len(line) THEN write_faults ELSE write_faults + 1
           /\ file' = SubSeq(line, 1, n)
           /\ add_log' = Append(add_log, [turn |-> turns, hash |-> hash,
                                          ok |-> n = Len(line)])
           /\ durable' = IF n = Len(line) THEN durable \cup {hash} ELSE durable
    /\ pc' = "sleep"
    /\ UNCHANGED <<run, turns, file_exists, state, notify_config, game, fetched,
                   load_info, file_before>>
    /\ UNCHANGED notify_log
    /\ UNCHANGED parse_vars
    /\ UNCHANGED <<name_vars, game_vars>>
    /\ UNCHANGED new_notify_config

\* SeenGames::add, its second statement, and the return to main.rs:128-132:
\* writeln!(&mut self.file, "{}", game.as_hash())?.  The file is opened for
\* append and is not buffered: write_fmt hands it the digits in one write_all
\* and the line end in another.  A write_all writes until an error stops it,
\* so n bytes of the line reach the file, for any n: some of the digits (the
\* first write_all fails, at once or after a short write), all the digits
\* (the second fails) or the whole line.  A full disk is one such error: it
\* takes what fits.  With n short of the line add returns the error and main
\* logs it.  At most MaxWriteFaults writes fail.
SeenGames_add_write(n) ==
    /\ pc = "write"
    /\ \E hash \in {as_hash(game[1])} : \E line \in {LineOf(hash)} :
           /\ n \in 0..Len(line)
           /\ n < Len(line) => write_faults < MaxWriteFaults
           /\ write_faults' = IF n = Len(line) THEN write_faults ELSE write_faults + 1
           /\ file' = file \o SubSeq(line, 1, n)
           /\ add_log' = Append(add_log, [turn |-> turns, hash |-> hash,
                                          ok |-> n = Len(line)])
           /\ durable' = IF n = Len(line) THEN durable \cup {hash} ELSE durable
    /\ pc' = "sleep"
    /\ UNCHANGED <<run, turns, file_exists, state, notify_config, game, fetched,
                   load_info, file_before>>
    /\ UNCHANGED notify_log
    /\ UNCHANGED parse_vars
    /\ UNCHANGED <<name_vars, game_vars>>
    /\ UNCHANGED new_notify_config

AddWrite == \E n \in 0..Len(LineOf(U64_MAX)) : SeenGames_add_write(n)

\* ------------------------------------------------------------------------
\* get_current_game (src/src/tcec.rs) and main (src/src/main.rs)
\* ------------------------------------------------------------------------

\* get_current_pgn and get_current_game for one answer of the server.
\* net_ok: the request succeeded with status 200 and a body, the text.
\* kind "err" is Err(e), "none" is Ok(None), "some" is Ok(Some(pgn)), and
\* "panic" is the panic of end_game passing through.
\* A get_current_game that hands on every game parsed, in book or not.
get_current_game_any_game(net_ok, text) ==
    IF ~net_ok THEN [kind |-> "err", pgn |-> None, error |-> "request failed"]
    ELSE LET r == get_pgn_info(text)
         IN  IF r.kind # "ok" THEN r
             ELSE [kind |-> "some", pgn |-> r.pgn, error |-> ""]

get_current_game(net_ok, text) ==
    IF ~net_ok THEN [kind |-> "err", pgn |-> None, error |-> "request failed"]
    ELSE LET r == get_pgn_info(text)
         IN  IF r.kind # "ok" THEN r
             ELSE IF ~out_of_book(r.pgn[1])
             THEN [kind |-> "none", pgn |-> None, error |-> ""]
             ELSE [kind |-> "some", pgn |-> r.pgn, error |-> ""]

\* main.rs:42: the first get_notify_config, with .expect("Unable to load config")
StartConfig ==
    /\ pc = "config"
    /\ \/ \E c \in NotifyConfigs : notify_config' = c /\ pc' = "turn"
       \/ notify_config' = notify_config /\ pc' = "panicked"
    /\ UNCHANGED <<run, turns, file, file_exists, state, game, fetched, load_info,
                   file_before>>
    /\ UNCHANGED history_vars
    /\ UNCHANGED parse_vars
    /\ UNCHANGED <<name_vars, game_vars>>
    /\ UNCHANGED new_notify_config

\* A refresh that is left without a configuration when the fetch fails.
RefreshConfig_error_clears_config ==
    /\ pc = "turn"
    /\ turns < MaxTurns
    /\ turns' = turns + 1
    /\ \/ /\ new_notify_config' = Some([kind |-> "err", cfg |-> EmptyConfig])
          /\ notify_config' = EmptyConfig
       \/ \E c \in NotifyConfigs :
             /\ new_notify_config' = Some([kind |-> "ok", cfg |-> c])
             /\ notify_config' = IF notify_config # c THEN c ELSE notify_config
    /\ pc' = "fetch"
    /\ game' = None
    /\ fetched' = "nothing"
    /\ UNCHANGED <<run, file, file_exists, state, load_info, file_before>>
    /\ UNCHANGED history_vars
    /\ UNCHANGED parse_vars
    /\ UNCHANGED <<name_vars, game_vars>>

\* main.rs:47-59: the start of a turn.  A failed refresh is logged and the
\* configuration in use is kept; a fetched one replaces it when it differs.
\* new_notify_config holds what get_notify_config returned until main.rs:61.
RefreshConfig ==
    /\ pc = "turn"
    /\ turns < MaxTurns
    /\ turns' = turns + 1
    /\ \/ /\ new_notify_config' = Some([kind |-> "err", cfg |-> EmptyConfig])
          /\ notify_config' = notify_config
       \/ \E c \in NotifyConfigs :
             /\ new_notify_config' = Some([kind |-> "ok", cfg |-> c])
             /\ notify_config' = IF notify_config # c THEN c ELSE notify_config
    /\ pc' = "fetch"
    /\ game' = None
    /\ fetched' = "nothing"
    /\ UNCHANGED <<run, file, file_exists, state, load_info, file_before>>
    /\ UNCHANGED history_vars
    /\ UNCHANGED parse_vars
    /\ UNCHANGED <<name_vars, game_vars>>

\* main.rs:61-76: get_current_game and the two let-else that follow it.
FetchGame(net_ok, text) ==
    /\ pc = "fetch"
    /\ LET r == get_current_game(net_ok, text)
       IN  /\ fetched' = r.kind
           /\ game' = r.pgn
           /\ pc' = CASE r.kind = "panic" -> "panicked"
                       [] r.kind = "some" -> "check"
                       [] OTHER -> "sleep"
    /\ new_notify_config' = None
    /\ UNCHANGED <<run, turns, file, file_exists, state, notify_config, load_info,
                   file_before>>
    /\ UNCHANGED history_vars
    /\ UNCHANGED parse_vars
    /\ UNCHANGED <<name_vars, game_vars>>

Fetch == \E net_ok \in BOOLEAN : \E text \in Feed : FetchGame(net_ok, text)

\* A loop that lets a new game pass unannounced when no configured engine
\* plays in it.
CheckSeen_needs_a_match ==
    /\ pc = "check"
    /\ pc' = IF \/ SeenGames_contains(game[1])
                \/ \A e \in DOMAIN notify_config : ~has_player(game[1], e)
             THEN "sleep" ELSE "notify"
    /\ UNCHANGED <<run, turns, file, file_exists, state, notify_config, game, fetched,
                   load_info, file_before>>
    /\ UNCHANGED history_vars
    /\ UNCHANGED parse_vars
    /\ UNCHANGED <<name_vars, game_vars>>
    /\ UNCHANGED new_notify_config

\* A loop that records a new game before it announces it.
CheckSeen_adds_before_notify ==
    /\ pc = "check"
    /\ pc' = IF SeenGames_contains(game[1]) THEN "sleep" ELSE "add"
    /\ UNCHANGED <<run, turns, file, file_exists, state, notify_config, game, fetched,
                   load_info, file_before>>
    /\ UNCHANGED history_vars
    /\ UNCHANGED parse_vars
    /\ UNCHANGED <<name_vars, game_vars>>
    /\ UNCHANGED new_notify_config

\* main.rs:89-93: if seen_games.contains(&game) { sleep; continue }
CheckSeen ==
    /\ pc = "check"
    /\ pc' = IF SeenGames_contains(game[1]) THEN "sleep" ELSE "notify"
    /\ UNCHANGED <<run, turns, file, file_exists, state, notify_config, game, fetched,
                   load_info, file_before>>
    /\ UNCHANGED history_vars
    /\ UNCHANGED parse_vars
    /\ UNCHANGED <<name_vars, game_vars>>
    /\ UNCHANGED new_notify_config

\* The users of every configured engine, whether it plays in the game or not.
Mentions_every_user(cfg, g) == UNION {cfg[e] : e \in DOMAIN cfg}

\* main.rs:101-112: the users of every configured engine the game has
Mentions(cfg, g) ==
    UNION {cfg[e] : e \in {e \in DOMAIN cfg : has_player(g, e)}}

\* main.rs:114-126: notify::notify is called; an error is logged and main
\* goes on to seen_games.add either way.
NotifyGame(sent) ==
    /\ pc = "notify"
    /\ notify_log' = Append(notify_log,
                            [turn |-> turns, hash |-> as_hash(game[1]), ok |-> sent,
                             mentions |-> Mentions(notify_config, game[1])])
    /\ pc' = "add"
    /\ UNCHANGED <<run, turns, file, file_exists, state, notify_config, game, fetched,
                   load_info, file_before>>
    /\ UNCHANGED <<add_log, durable, write_faults>>
    /\ UNCHANGED parse_vars
    /\ UNCHANGED <<name_vars, game_vars>>
    /\ UNCHANGED new_notify_config

Notify == \E sent \in BOOLEAN : NotifyGame(sent)

\* std::thread::sleep(POLL_DELAY); continue
Sleep ==
    /\ pc = "sleep"
    /\ pc' = "turn"
    /\ UNCHANGED <<run, turns, file, file_exists, state, notify_config, game, fetched,
                   load_info, file_before>>
    /\ UNCHANGED history_vars
    /\ UNCHANGED parse_vars
    /\ UNCHANGED <<name_vars, game_vars>>
    /\ UNCHANGED new_notify_config

\* The process is killed from outside (a signal, a power cut) at any point
\* of main: what it held in memory is gone.  Killed inside load, the open
\* may or may not have created the file.  Killed inside add, after the
\* insertion, the writeln! (state.rs:40) has handed n bytes of the line to
\* the file, for any n from none to the whole line: no add has returned and
\* no write has failed.  Anywhere else the file is as it was.
Kill ==
    /\ pc \notin {"killed", "panicked"}
    /\ run < MaxRuns
    /\ pc' = "killed"
    /\ \E line \in {IF pc = "write" THEN LineOf(as_hash(game[1])) ELSE <<>>} :
       \E n \in 0..Len(line) :
           file' = file \o SubSeq(line, 1, n)
    /\ \E created \in {FALSE, pc = "boot"} :
           file_exists' = (file_exists \/ created)
    /\ UNCHANGED <<run, turns, state, notify_config, game, fetched,
                   load_info, file_before>>
    /\ UNCHANGED history_vars
    /\ UNCHANGED parse_vars
    /\ UNCHANGED <<name_vars, game_vars>>
    /\ UNCHANGED new_notify_config

\* A new process is started over the same directory.
Restart ==
    /\ pc \in {"killed", "panicked"}
    /\ run < MaxRuns
    /\ run' = run + 1
    /\ pc' = "boot"
    /\ state' = {}
    /\ notify_config' = EmptyConfig
    /\ game' = None
    /\ fetched' = "nothing"
    /\ load_info' = NoLoad
    /\ file_before' = <<>>
    /\ notify_log' = <<>>
    /\ add_log' = <<>>
    /\ new_notify_config' = None
    /\ UNCHANGED <<turns, file, file_exists, durable, write_faults>>
    /\ UNCHANGED parse_vars
    /\ UNCHANGED <<name_vars, game_vars>>

Init ==
    /\ pc = "boot"
    /\ run = 1
    /\ turns = 0
    /\ \/ file_exists = FALSE /\ file = <<>>
       \/ file_exists = TRUE /\ file \in InitialFiles
    /\ state = {}
    /\ notify_config = EmptyConfig
    /\ game = None
    /\ fetched = "nothing"
    /\ load_info = NoLoad
    /\ file_before = <<>>
    /\ notify_log = <<>>
    /\ add_log = <<>>
    /\ durable = {}
    /\ write_faults = 0
    /\ new_notify_config = None
    /\ builder = PgnInfoBuilder_new
    /\ visited = <<>>
    /\ fed = 0
    /\ parsed = None
    /\ reparsed = None
    /\ again = None
    /\ hashes = <<>>
    /\ shape = "game"
    /\ NamesIdle
    /\ GamesIdle

Next ==
    \/ Load
    \/ StartConfig
    \/ RefreshConfig
    \/ Fetch
    \/ CheckSeen
    \/ Notify
    \/ SeenGames_add_insert
    \/ AddWrite
    \/ Sleep
    \/ Kill
    \/ Restart

Spec == Init /\ [][Next]_vars

\* ------------------------------------------------------------------------
\* One parse, token by token: read_game driving the visitor
\* ------------------------------------------------------------------------

\* What a parse starts from: no tag, the usual tags, the tags without Date,
\* and a game of two book moves, as TextInBook has them.
Preambles ==
    { <<>>,
      HeadersOf(NameLu, NameCo),
      TextInBook.tokens,
      <<HeaderTok("Event", EventT), HeaderTok("White", NameLu), HeaderTok("Black", NameCo)>> }

HeaderInputs ==
    { HeaderTok("Date", Date01), HeaderTok("Date", Date02), HeaderTok("White", NameMi),
      HeaderTok("Black", NameMi), HeaderTok("Event", EventT), HeaderTok("Round", <<"1">>) }

SanInputs == {SanE4, SanC5}

CommentInputs == {BookComment, InfoComment}

loop_vars ==
    <<pc, run, turns, file, file_exists, state, notify_config, game, fetched,
      load_info, file_before, notify_log, add_log, durable, write_faults, new_notify_config>>

\* The reader hands the visitor one more token.
VisitToken(tok) ==
    /\ shape = "game"
    /\ parsed = None
    /\ fed < MaxTokens
    /\ fed' = fed + 1
    /\ builder' = Visit(builder, tok)
    /\ visited' = Append(visited, tok)
    /\ UNCHANGED <<parsed, reparsed, again, hashes, shape>>
    /\ UNCHANGED loop_vars
    /\ UNCHANGED <<name_vars, game_vars>>

\* The tags of a game stand before its movetext: the reader reads them first.
VisitHeader ==
    /\ \A i \in 1..Len(visited) : visited[i].type = "header"
    /\ \E tok \in HeaderInputs : VisitToken(tok)

VisitSan == \E s \in SanInputs : VisitToken(SanTok(s))

VisitComment == \E c \in CommentInputs : VisitToken(CommentTok(c))

VisitVariation == VisitToken(VariationTok)

\* The hash of a hasher keyed anew by every process, as a RandomState would
\* key it.
HashOf_keyed_per_process(result) ==
    IF result.kind = "ok"
    THEN Some(HasherFinish(<<[i \in 1..8 |-> IF i = 1 THEN run ELSE 0], [i \in 1..8 |-> 0]>>,
                           HashBytes(HashStream(result.pgn[1]))))
    ELSE None

\* The identity hash of the game a parse returned, if it returned one.
HashOf(result) == IF result.kind = "ok" THEN Some(as_hash(result.pgn[1])) ELSE None

\* The reader reaches the end of the game and calls end_game, which takes
\* &mut self: the pending move is appended to self.moves before the headers
\* are checked, so the builder holds it whether the call returns or panics,
\* and last_san and last_comment stay as they were.
EndGame ==
    /\ shape = "game"
    /\ parsed = None
    /\ builder' = EndGameCommit(builder)
    /\ parsed' = Some(end_game(builder))
    /\ hashes' = <<HashOf(end_game(builder))>>
    /\ UNCHANGED <<visited, fed, reparsed, again, shape>>
    /\ UNCHANGED loop_vars
    /\ UNCHANGED <<name_vars, game_vars>>

\* The reader reaches the end of a text that has no game in it: read_game
\* returns Ok(None) without a call into the visitor, and get_pgn_info returns.
NoGameRead ==
    /\ shape = "blank"
    /\ parsed = None
    /\ parsed' = Some(get_pgn_info([shape |-> shape, tokens |-> visited]))
    /\ hashes' = <<HashOf(get_pgn_info([shape |-> shape, tokens |-> visited]))>>
    /\ UNCHANGED <<builder, visited, fed, reparsed, again, shape>>
    /\ UNCHANGED loop_vars
    /\ UNCHANGED <<name_vars, game_vars>>

\* The process that parsed the text ends and another one starts.
NextProcess ==
    /\ parsed # None
    /\ reparsed = None
    /\ again = None
    /\ run < MaxRuns
    /\ run' = run + 1
    /\ UNCHANGED parse_vars
    /\ UNCHANGED <<pc, turns, file, file_exists, state, notify_config, game, fetched,
                   load_info, file_before, notify_log, add_log, durable, write_faults,
                   new_notify_config>>
    /\ UNCHANGED <<name_vars, game_vars>>

\* get_pgn_info is called once more on the text that has been parsed, by the
\* process that parsed it or by a later one.  The call makes a visitor of its
\* own, PgnInfoBuilder::new() (tcec_pgn.rs:188): nothing of the visitor of
\* the first call, which end_game left holding the moves and the last move,
\* is carried over.
BeginParseAgain_reuses_visitor ==
    /\ parsed # None
    /\ reparsed = None
    /\ again = None
    /\ again' = Some([builder |-> builder, read |-> 0])
    /\ UNCHANGED <<builder, visited, fed, parsed, reparsed, hashes, shape>>
    /\ UNCHANGED loop_vars
    /\ UNCHANGED <<name_vars, game_vars>>

BeginParseAgain ==
    /\ parsed # None
    /\ reparsed = None
    /\ again = None
    /\ again' = Some([builder |-> PgnInfoBuilder_new, read |-> 0])
    /\ UNCHANGED <<builder, visited, fed, parsed, reparsed, hashes, shape>>
    /\ UNCHANGED loop_vars
    /\ UNCHANGED <<name_vars, game_vars>>

\* The reader of the second call hands its visitor the next token of the
\* text.
ReadAgain ==
    /\ again # None
    /\ reparsed = None
    /\ shape = "game"
    /\ again[1].read < Len(visited)
    /\ again' = Some([builder |-> Visit(again[1].builder, visited[again[1].read + 1]),
                      read |-> again[1].read + 1])
    /\ UNCHANGED <<builder, visited, fed, parsed, reparsed, hashes, shape>>
    /\ UNCHANGED loop_vars
    /\ UNCHANGED <<name_vars, game_vars>>

\* The second call returns, once its reader is through the text, what
\* end_game on its visitor returns, or the error of a text with no game in
\* it, and the identity hash of its game is taken.
ParseAgain ==
    /\ again # None
    /\ reparsed = None
    /\ shape = "game" => again[1].read = Len(visited)
    /\ \E result \in {IF shape = "game" THEN end_game(again[1].builder)
                       ELSE get_pgn_info([shape |-> shape, tokens |-> visited])} :
           /\ reparsed' = Some(result)
           /\ hashes' = Append(hashes, HashOf(result))
    /\ again' = IF shape = "game"
                THEN Some([again[1] EXCEPT !.builder = EndGameCommit(@)])
                ELSE again
    /\ UNCHANGED <<builder, visited, fed, parsed, shape>>
    /\ UNCHANGED loop_vars
    /\ UNCHANGED <<name_vars, game_vars>>

ParseInit ==
    /\ pc = "parse"
    /\ run = 1
    /\ turns = 0
    /\ file_exists = FALSE
    /\ file = <<>>
    /\ state = {}
    /\ notify_config = EmptyConfig
    /\ game = None
    /\ fetched = "nothing"
    /\ load_info = NoLoad
    /\ file_before = <<>>
    /\ notify_log = <<>>
    /\ add_log = <<>>
    /\ durable = {}
    /\ write_faults = 0
    /\ new_notify_config = None
    /\ \/ /\ shape = "game"
          /\ \E pre \in Preambles :
                /\ visited = pre
                /\ builder = VisitAll(PgnInfoBuilder_new, pre)
       \/ /\ shape = "blank"
          /\ visited = <<>>
          /\ builder = PgnInfoBuilder_new
    /\ fed = 0
    /\ parsed = None
    /\ reparsed = None
    /\ again = None
    /\ hashes = <<>>
    /\ NamesIdle
    /\ GamesIdle

ParseNext ==
    \/ VisitHeader
    \/ VisitSan
    \/ VisitComment
    \/ VisitVariation
    \/ EndGame
    \/ NoGameRead
    \/ NextProcess
    \/ BeginParseAgain
    \/ ReadAgain
    \/ ParseAgain

ParseSpec == ParseInit /\ [][ParseNext]_vars

\* ------------------------------------------------------------------------
\* EngineName operations on raw names
\* ------------------------------------------------------------------------

\* The polling loop and the parser at rest.
LoopIdle ==
    /\ run = 1
    /\ turns = 0
    /\ file_exists = FALSE
    /\ file = <<>>
    /\ state = {}
    /\ notify_config = EmptyConfig
    /\ game = None
    /\ fetched = "nothing"
    /\ load_info = NoLoad
    /\ file_before = <<>>
    /\ notify_log = <<>>
    /\ add_log = <<>>
    /\ durable = {}
    /\ write_faults = 0
    /\ new_notify_config = None

ParseIdle ==
    /\ builder = PgnInfoBuilder_new
    /\ visited = <<>>
    /\ fed = 0
    /\ parsed = None
    /\ reparsed = None
    /\ again = None
    /\ hashes = <<>>
    /\ shape = "game"

NameLux == <<"L", "u", "x">>

\* Names with nothing after them; one is padded, one is of two words.
BaseNames == { <<"L", "u">>, NameLux, <<" ", "C", "o">>, <<"x", " ", "y">> }

RECURSIVE Version(_)
\* A version number of k parts: 2, 2.1, 2.1.2, 2.1.2.3, ...
Version(k) == IF k = 1 THEN <<"2">> ELSE Version(k - 1) \o <<".", DigitChars[k]>>

\* The version numbers of at most n parts, bare and with a v before them.
VersionSuffixes(n) ==
    {Version(k) : k \in 1..n} \cup {<<"v">> \o Version(k) : k \in 1..n}

\* <4-digit-year><letter>
DateSuffixes == { <<"2", "0", "2", "5", "b">>, <<"1", "9", "9", "9", "Z">> }

\* Near misses: a dot at the end, three digits and a letter, a year whose
\* letter begins a word.
OddSuffixes ==
    { <<"2", ".">>, <<"0", "2", "5", "b">>, <<"2", "0", "2", "5", "b", "e", "t", "a">> }

\* Names whose digits and whitespace are not ASCII: a version of one
\* Arabic-Indic digit; a version of a fullwidth and an Arabic-Indic digit
\* after a v; a year that begins with an Arabic-Indic digit; a name between a
\* no-break space and an ideographic space; a no-break space before the space
\* of a version; a no-break space in the place of that space.
UnicodeNames ==
    { <<"L", "u", " ", "U+0663">>,
      <<"L", "u", " ", "v", "U+FF11", ".", "U+0663">>,
      <<"L", "u", " ", "U+0662", "0", "2", "5", "b">>,
      <<"U+00A0", "C", "o", "U+3000">>,
      <<"L", "u", "U+00A0", " ", "2">>,
      <<"L", "u", "U+00A0", "2">> }

\* The raw names tried: a base name alone; a base name, a space and a suffix;
\* a number with no space before it; a version with a space after it; a
\* version followed by a date code; the names of UnicodeNames.
RawNames ==
    BaseNames
    \cup {b \o <<" ">> \o x : b \in BaseNames,
                             x \in VersionSuffixes(MaxParts) \cup DateSuffixes \cup OddSuffixes}
    \cup { <<"L", "u", "2">>,
           <<"L", "u", " ", "2", " ">>,
           <<"x", " ", "2", " ", "2", "0", "2", "5", "a">> }
    \cup UnicodeNames

NameResult(op, flag, ta, tb) == [op |-> op, flag |-> flag, text_a |-> ta, text_b |-> tb]

\* What leaves the names alone.
NameFrame ==
    /\ UNCHANGED <<name_a, name_b>>
    /\ UNCHANGED loop_vars
    /\ UNCHANGED parse_vars
    /\ UNCHANGED game_vars

\* EngineName::normalize is applied to the two names.
NormalizeNames ==
    /\ name_out = None
    /\ name_out' = Some(NameResult("normalize", FALSE, normalize(name_a), normalize(name_b)))
    /\ NameFrame

\* EngineName::new(a) == EngineName::new(b), and the text each of the two
\* hands to a hasher.
CompareNames ==
    /\ name_out = None
    /\ name_out' = Some(NameResult("eq",
                                   EngineName_eq(EngineName_new(name_a), EngineName_new(name_b)),
                                   EngineName_hash(EngineName_new(name_a)),
                                   EngineName_hash(EngineName_new(name_b))))
    /\ NameFrame

\* EngineName::new(a).matches(b)
MatchNames ==
    /\ name_out = None
    /\ name_out' = Some(NameResult("matches", matches(EngineName_new(name_a), name_b),
                                   <<>>, <<>>))
    /\ NameFrame

NameInit ==
    /\ pc = "names"
    /\ LoopIdle
    /\ ParseIdle
    /\ GamesIdle
    /\ name_a \in RawNames
    /\ name_b \in RawNames
    /\ name_out = None

NameNext ==
    \/ NormalizeNames
    \/ CompareNames
    \/ MatchNames

NameSpec == NameInit /\ [][NameNext]_vars

\* ------------------------------------------------------------------------
\* Pgn operations on games
\* ------------------------------------------------------------------------

NameLu3 == <<"L", "u", " ", "3">>

EventU == <<"U">>

\* A game that left its book at the third move and whose fourth move is
\* reported as a book move again.
TextTablebase ==
    [shape |-> "game",
     tokens |-> HeadersOf(NameLu, NameCo)
                \o <<SanTok(SanE4), CommentTok(BookComment),
                      SanTok(SanC5), CommentTok(BookComment),
                      SanTok(SanD4), CommentTok(InfoComment),
                      SanTok(SanE4), CommentTok(BookComment)>>]

\* The games a study starts from, as the parser returns them.
BaseGames ==
    {get_pgn_info(t).pgn[1] : t \in {TextInBook, TextA, TextB, TextTablebase}}

GamePlayers == {NameLu, NameLu3, NameCo, NameMi}

GameDates == {Date01, Date02}

GameEvents == {EventT, EventU}

GameMoves == [notation : {SanE4, SanC5, SanD4}, in_book : BOOLEAN]

\* One part of pgn_b is changed.
Edit(g) ==
    /\ pgn_out = None
    /\ edits < MaxEdits
    /\ edits' = edits + 1
    /\ pgn_b' = g
    /\ UNCHANGED <<pgn_a, pgn_out>>
    /\ UNCHANGED loop_vars
    /\ UNCHANGED parse_vars
    /\ UNCHANGED name_vars

SetDate == \E d \in GameDates : Edit([pgn_b EXCEPT !.date = d])

SetWhite == \E n \in GamePlayers : Edit([pgn_b EXCEPT !.white_player = EngineName_new(n)])

SetBlack == \E n \in GamePlayers : Edit([pgn_b EXCEPT !.black_player = EngineName_new(n)])

SwapPlayers ==
    Edit([pgn_b EXCEPT !.white_player = pgn_b.black_player,
                       !.black_player = pgn_b.white_player])

SetEvent == \E e \in GameEvents : Edit([pgn_b EXCEPT !.event = e])

PushMove ==
    /\ Len(pgn_b.moves) < MaxMoves
    /\ \E mv \in GameMoves : Edit([pgn_b EXCEPT !.moves = Append(@, mv)])

PopMove ==
    /\ pgn_b.moves # <<>>
    /\ Edit([pgn_b EXCEPT !.moves = SubSeq(@, 1, Len(@) - 1)])

SetMove ==
    \E i \in 1..Len(pgn_b.moves) : \E mv \in GameMoves :
        Edit([pgn_b EXCEPT !.moves[i] = mv])

GameResult(op, ha, hb, eq, op_moves, oob, player, has, seen) ==
    [op |-> op, hash_a |-> ha, hash_b |-> hb, eq |-> eq,
     opening |-> op_moves, out_of_book |-> oob,
     player |-> player, has_player |-> has, seen |-> seen]

\* The names a configuration asks for: engine names as published, and the
\* short lowercase keys users write.
PlayerKeys == GamePlayers \cup {<<"l", "u">>, <<"c", "o">>, <<"o">>, <<"x">>}

GameFrame ==
    /\ UNCHANGED <<pgn_a, pgn_b, edits>>
    /\ UNCHANGED loop_vars
    /\ UNCHANGED parse_vars
    /\ UNCHANGED name_vars

\* Pgn::as_hash of the two games, and pgn_a == pgn_b
HashGames ==
    /\ pgn_out = None
    /\ pgn_out' = Some(GameResult("as_hash", as_hash(pgn_a), as_hash(pgn_b),
                                  Pgn_eq(pgn_a, pgn_b), <<>>, FALSE, <<>>, FALSE, FALSE))
    /\ GameFrame

\* Pgn::opening and Pgn::out_of_book of the changed game
ReadBook ==
    /\ pgn_out = None
    /\ pgn_out' = Some(GameResult("book", U64(0), U64(0), FALSE,
                                  opening(pgn_b), out_of_book(pgn_b),
                                  <<>>, FALSE, FALSE))
    /\ GameFrame

\* Pgn::has_player of the changed game, for one name
HasPlayer ==
    /\ pgn_out = None
    /\ \E player \in PlayerKeys :
           pgn_out' = Some(GameResult("has_player", U64(0), U64(0), FALSE, <<>>,
                                      FALSE, player, has_player(pgn_b, player),
                                      FALSE))
    /\ GameFrame

\* SeenGames::add of the first game, the whole call: the insert into the set
\* in memory, then the writeln! to the record, of which n bytes reach the
\* file as in SeenGames_add_write; add returns Ok when the whole line did.
AddFirstGame ==
    /\ pgn_out = None
    /\ state = {}
    /\ \E hash \in {as_hash(pgn_a)} : \E line \in {LineOf(hash)} :
       \E n \in 0..Len(line) :
           /\ n < Len(line) => write_faults < MaxWriteFaults
           /\ state' = state \cup {hash}
           /\ file_before' = file
           /\ file' = file \o SubSeq(line, 1, n)
           /\ write_faults' = IF n = Len(line) THEN write_faults ELSE write_faults + 1
           /\ add_log' = Append(add_log, [turn |-> turns, hash |-> hash,
                                          ok |-> n = Len(line)])
           /\ durable' = IF n = Len(line) THEN durable \cup {hash} ELSE durable
    /\ UNCHANGED <<pc, run, turns, file_exists, notify_config, game, fetched,
                   load_info, notify_log, new_notify_config>>
    /\ UNCHANGED <<pgn_a, pgn_b, edits, pgn_out>>
    /\ UNCHANGED parse_vars
    /\ UNCHANGED name_vars

\* SeenGames::contains of the changed game, once the first has been added,
\* with the two hashes and pgn_a == pgn_b
ContainsChangedGame ==
    /\ pgn_out = None
    /\ state # {}
    /\ pgn_out' = Some(GameResult("contains", as_hash(pgn_a), as_hash(pgn_b),
                                  Pgn_eq(pgn_a, pgn_b), <<>>, FALSE, <<>>, FALSE,
                                  SeenGames_contains(pgn_b)))
    /\ GameFrame

\* The games under study and a store as SeenGames::load returns it in a
\* directory without state.bin: the open has created the file, empty.
GameInit ==
    /\ pc = "games"
    /\ run = 1
    /\ turns = 0
    /\ file_exists = TRUE
    /\ file = <<>>
    /\ state = {}
    /\ notify_config = EmptyConfig
    /\ game = None
    /\ fetched = "nothing"
    /\ load_info = [done |-> TRUE, missing |-> TRUE, refused |-> FALSE,
                    read_ok |-> TRUE, result |-> "ok", loaded |-> {}]
    /\ file_before = <<>>
    /\ notify_log = <<>>
    /\ add_log = <<>>
    /\ durable = {}
    /\ write_faults = 0
    /\ new_notify_config = None
    /\ ParseIdle
    /\ NamesIdle
    /\ pgn_a \in BaseGames
    /\ pgn_b = pgn_a
    /\ edits = 0
    /\ pgn_out = None

GameNext ==
    \/ SetDate
    \/ SetWhite
    \/ SetBlack
    \/ SwapPlayers
    \/ SetEvent
    \/ PushMove
    \/ PopMove
    \/ SetMove
    \/ HashGames
    \/ ReadBook
    \/ HasPlayer
    \/ AddFirstGame
    \/ ContainsChangedGame

GameSpec == GameInit /\ [][GameNext]_vars

\* ------------------------------------------------------------------------
\* Properties
\* ------------------------------------------------------------------------

Last(q) == q[Len(q)]

\* add was called in the current turn and has returned.
AddReturned == pc = "sleep" /\ add_log # <<>> /\ Last(add_log).turn = turns

\* The hashes the lines of a record denote, the lines that are no number
\* left aside.
RecordHashes(f) ==
    {ParseValue(Lines(f)[i]) : i \in {j \in 1..Len(Lines(f)) : ParseOk(Lines(f)[j])}}

\* C1: a game that ends with White, Black, Date or Event missing makes
\* get_pgn_info return an error value to its caller.  (The code does not: the
\* assert_ne! of end_game panics.)
C1_MissingHeaderIsError ==
    (parsed # None /\ ~HeadersPresent(builder)) => parsed[1].kind = "err"

\* C2: a hash is put in the seen-game store only for a game whose notification
\* was delivered: once add has inserted the hash of the turn's game, some
\* notify call of this run for that hash returned Ok.  (The code calls add
\* after a failed notify as well.)
C2_OnlyNotifiedGamesRecorded ==
    pc = "write" =>
        \E i \in 1..Len(notify_log) :
            notify_log[i].hash = as_hash(game[1]) /\ notify_log[i].ok

\* C3: no failure to fetch or parse the feed ends the process: a turn whose
\* fetch did not produce a game goes to its sleep.  (The code panics in
\* end_game when a required tag is missing.)
C3_FetchFailureNotFatal ==
    fetched \in {"err", "panic"} => pc # "panicked"

\* C4: when add has returned Ok, the hash of the game is in the in-memory set
\* and its decimal digits have been appended as a line of the record: the
\* record is what it was before the call followed by the digits and a line
\* end, and its last line is those digits.  (The code does not give the
\* second on a record that ended in an unterminated line, left by a write
\* that stopped short: the digits continue that line.)
C4_AddOkAppendsLine ==
    (AddReturned /\ Last(add_log).ok) =>
        /\ Last(add_log).hash = as_hash(game[1])
        /\ as_hash(game[1]) \in state
        /\ file = file_before \o ToDecimal(as_hash(game[1])) \o <<NL>>
        /\ Last(Lines(file)) = ToDecimal(as_hash(game[1]))

\* C5: the record is never ahead of the set: while the store is loaded, every
\* hash a line of the record denotes is in the in-memory set.  It is stated
\* here for a store whose load could read the whole record, so that what
\* breaks it is add alone: a write that stops short leaves an unterminated
\* line, some of the digits of a hash, which reads as another hash and which
\* the next write continues.
C5_RecordNeverAhead ==
    (/\ pc \in {"config", "turn", "fetch", "check", "notify", "add", "write", "sleep"}
     /\ load_info.read_ok) =>
        RecordHashes(file) \subseteq state

\* C6: an add whose write failed returned an error and left the hash in the
\* set: for the rest of the run the hash is in the set and the game has been
\* notified once, in the turn of that add, and not again.
C6_FailedAddKeepsHash ==
    \A i \in 1..Len(add_log) :
        ~add_log[i].ok =>
            /\ add_log[i].hash \in state
            /\ \A j \in 1..Len(notify_log) :
                   notify_log[j].hash = add_log[i].hash
                       => notify_log[j].turn = add_log[i].turn

\* C6 witness: the game of a failed add is fetched again in a later turn of
\* the run and that turn goes to sleep without a notify call.
C6_Witness ==
    /\ pc = "sleep"
    /\ fetched = "some"
    /\ \E i \in 1..Len(add_log) :
          /\ ~add_log[i].ok
          /\ add_log[i].turn < turns
          /\ add_log[i].hash = as_hash(game[1])
    /\ \A j \in 1..Len(notify_log) : notify_log[j].turn < turns

\* The record holds nothing but decimal digits and line ends.
DigitsAndLineEnds(s) ==
    \A i \in 1..Len(s) : s[i] = NL \/ \E k \in 1..10 : DigitChars[k] = s[i]

\* C7: once add(g) has returned Ok, a later process loads from the same file
\* a store that contains g.  It is stated here for a record of digits and
\* line ends that the load could read whole, so that what breaks it is the
\* line add wrote: when the record did not end in a line end, the digits of g
\* continue the line before them, and the line they make is no u64.
C7_RoundTrip ==
    (load_info.done /\ load_info.read_ok /\ DigitsAndLineEnds(file)) =>
        /\ load_info.result = "ok"
        /\ durable \subseteq state

\* C8: load returns a store only if it could read the record.  (The code
\* throws the Result of read_to_string away.)
C8_ReadFailureFailsLoad ==
    (load_info.done /\ load_info.result = "ok") => load_info.read_ok

\* C9: load returns a store only if every line of the record is a base-10
\* u64.  The record is as load found it while main is at its next statement.
\* (With the read error thrown away, a record that is not UTF-8 loads as the
\* empty set and a record read in part loads without its later lines.)
C9_MalformedLineFailsLoad ==
    pc = "config" => AllLinesParse(file)

\* C10 as stated: when state.bin is missing, load creates the file and
\* returns Ok with the empty set; the file is empty.  (Not when the operating
\* system refuses the open that would create it: load returns that error.)
C10_MissingFileAlwaysCreated ==
    (load_info.done /\ load_info.missing) =>
        /\ load_info.result = "ok"
        /\ file_exists
        /\ pc = "config" => (state = {} /\ file = <<>>)

\* C10: when state.bin is missing and the operating system does not refuse
\* the open, load creates the file and returns Ok with the empty set; the
\* file is empty.
C10_MissingFileCreated ==
    (load_info.done /\ load_info.missing /\ ~load_info.refused) =>
        /\ load_info.result = "ok"
        /\ file_exists
        /\ pc = "config" => (state = {} /\ file = <<>>)

\* C10 witness: load has just returned for a file that was missing.
C10_Witness ==
    pc = "config" /\ load_info.done /\ load_info.missing /\ file_exists /\ state = {}

\* The parts the identity hash is taken over: the normalized names of the
\* two players, the date, and the notations of the opening.
OpeningNotation(g) == [i \in 1..Len(opening(g)) |-> opening(g)[i].notation]

SameIdentityParts(a, b) ==
    /\ normalize(a.white_player) = normalize(b.white_player)
    /\ normalize(a.black_player) = normalize(b.black_player)
    /\ a.date = b.date
    /\ OpeningNotation(a) = OpeningNotation(b)

HashesTaken == pgn_out # None /\ pgn_out[1].op = "as_hash"

BookRead == pgn_out # None /\ pgn_out[1].op = "book"

\* C11: two games with the same normalized white and black names, the same
\* date and the same opening notations have equal identity hashes (and are
\* equal as Pgn), whatever their events and whatever their moves after the
\* first move out of book.
C11_HashIgnoresAfterOpening ==
    (HashesTaken /\ SameIdentityParts(pgn_a, pgn_b)) =>
        (pgn_out[1].hash_a = pgn_out[1].hash_b /\ pgn_out[1].eq)

\* C11 witness: the hashes of two games of different events, different raw
\* white names or different moves after the opening have been taken, and the
\* games agree on what the hash is taken over.
C11_Witness ==
    /\ HashesTaken
    /\ SameIdentityParts(pgn_a, pgn_b)
    /\ pgn_a.moves # pgn_b.moves
    /\ pgn_a.event # pgn_b.event \/ pgn_a.white_player # pgn_b.white_player

\* C12, as stated: two games that differ in the date, in the name of either
\* player as the feed gives it, or in the notations of the opening have
\* different identity hashes.
C12_AnyChangeChangesHash ==
    (/\ HashesTaken
     /\ \/ pgn_a.date # pgn_b.date
        \/ pgn_a.white_player # pgn_b.white_player
        \/ pgn_a.black_player # pgn_b.black_player
        \/ OpeningNotation(pgn_a) # OpeningNotation(pgn_b)) =>
        pgn_out[1].hash_a # pgn_out[1].hash_b

\* C12, amended: two games that differ in the date, in the normalized name of
\* either player, or in the notations of the opening (one changed, added or
\* removed) have different identity hashes.
C12_IdentityChangeChangesHash ==
    (HashesTaken /\ ~SameIdentityParts(pgn_a, pgn_b)) =>
        (pgn_out[1].hash_a # pgn_out[1].hash_b /\ ~pgn_out[1].eq)

\* C12 witness: the hashes have been taken of a game and of the same game
\* with white and black swapped and one opening move fewer or more.
C12_Witness ==
    /\ HashesTaken
    /\ pgn_b.white_player = pgn_a.black_player
    /\ pgn_b.black_player = pgn_a.white_player
    /\ normalize(pgn_a.white_player) # normalize(pgn_a.black_player)
    /\ Len(opening(pgn_a)) # Len(opening(pgn_b))
    /\ pgn_out[1].hash_a # pgn_out[1].hash_b

NamesCompared == name_out # None /\ name_out[1].op = "eq"

NamesMatched == name_out # None /\ name_out[1].op = "matches"

NamesNormalized == name_out # None /\ name_out[1].op = "normalize"

\* C14: EngineName::new(a) == EngineName::new(b) exactly when the normalized
\* forms of a and b are equal, and two equal names hand the same text to the
\* hasher.
C14_EqualityAndHashOnNormalizedForm ==
    NamesCompared =>
        /\ name_out[1].flag <=> (normalize(name_a) = normalize(name_b))
        /\ name_out[1].flag => (name_out[1].text_a = name_out[1].text_b)

\* C14 witness: two different raw names have been compared and found equal.
C14_Witness == NamesCompared /\ name_out[1].flag /\ name_a # name_b

\* The suffixes of C15: one to three numbers with dots between them, bare or
\* after a v, and a year of four digits followed by a letter.
ClaimSuffixes ==
    {Version(1), Version(2), Version(3)}
    \cup {<<"v">> \o Version(1), <<"v">> \o Version(2), <<"v">> \o Version(3)}
    \cup DateSuffixes

\* The name carries no version suffix and no date code: neither pattern of
\* normalize matches anywhere in its lower-cased form.
NoSuffix(name) ==
    /\ \A i \in 1..Len(name) : ~VersionMatchAt(ToAsciiLowercase(name), i)
    /\ \A i \in 1..Len(name) : ~DateVersionMatchAt(ToAsciiLowercase(name), i)

\* C15: for a base name B that carries no suffix and a suffix s of one of the
\* shapes of ClaimSuffixes, EngineName::new(B + " " + s).matches(B) holds.
C15_SuffixTolerance ==
    (/\ NamesMatched
     /\ NoSuffix(name_b)
     /\ \E x \in ClaimSuffixes : name_a = name_b \o <<" ">> \o x) =>
        name_out[1].flag

\* C15 witness: a name with capitals in it followed by a three-part version
\* after a v has been matched against the name alone.
C15_Witness ==
    /\ NamesMatched
    /\ name_b = NameLux
    /\ name_a = NameLux \o <<" ", "v">> \o Version(3)
    /\ name_out[1].flag

\* p occurs in s: s is some text, then p, then some text.
IsSubstring(p, s) ==
    \E k \in 0..Len(s) :
        /\ k + Len(p) <= Len(s)
        /\ \A j \in 1..Len(p) : s[k + j] = p[j]

\* C16: A.matches(b) holds exactly when normalize(b) is a substring of
\* normalize(A).
C16_MatchesIsNormalizedSubstring ==
    NamesMatched =>
        (name_out[1].flag <=> IsSubstring(normalize(name_b), normalize(name_a)))

\* C16 witness: the relation is not symmetric: a fuller name has been matched
\* by a shorter one that it does not match in its turn.
C16_Witness ==
    /\ NamesMatched
    /\ name_out[1].flag
    /\ ~IsSubstring(normalize(name_a), normalize(name_b))

\* C17, as stated: normalize returns a name that carries no version suffix
\* and no date code unchanged but for the lower-casing.
C17_NoSuffixOnlyLowercased ==
    (NamesNormalized /\ NoSuffix(name_a)) =>
        name_out[1].text_a = ToAsciiLowercase(name_a)

\* C17, amended: normalize returns a name that carries no version suffix and
\* no date code lower-cased and with the whitespace around it trimmed, and
\* otherwise unchanged.
C17_NoSuffixLowercasedAndTrimmed ==
    (NamesNormalized /\ NoSuffix(name_a)) =>
        name_out[1].text_a = Trim(ToAsciiLowercase(name_a))

\* C17 witness: a name with capitals, a space before it and no suffix has
\* been normalized.
C17_Witness ==
    /\ NamesNormalized
    /\ NoSuffix(name_a)
    /\ ToAsciiLowercase(name_a) # name_a
    /\ Trim(name_a) # name_a
    /\ name_out[1].text_a = Trim(ToAsciiLowercase(name_a))

\* The moves of the game that are not book moves.
NonBookMoves(g) == {i \in 1..Len(g.moves) : ~g.moves[i].in_book}

\* C18: out_of_book() is true exactly when at least one move of the game is
\* not a book move: false for a game of book moves only and for a game of no
\* move, true once one move that is not a book move is appended.
C18_OutOfBookIffSomeNonBookMove ==
    BookRead => (pgn_out[1].out_of_book <=> Cardinality(NonBookMoves(pgn_b)) >= 1)

\* C18 witness: out_of_book has been read of a game of book moves to which
\* one move that is not a book move was appended.
C18_Witness ==
    /\ BookRead
    /\ pgn_a.moves # <<>>
    /\ NonBookMoves(pgn_a) = {}
    /\ pgn_b.moves = Append(pgn_a.moves, [notation |-> SanD4, in_book |-> FALSE])
    /\ pgn_out[1].out_of_book

\* The length of the longest prefix of the moves that holds book moves only.
BookPrefixLen(moves) ==
    CHOOSE n \in 0..Len(moves) :
        /\ \A i \in 1..n : moves[i].in_book
        /\ n = Len(moves) \/ ~moves[n + 1].in_book

\* C19: opening() is the longest prefix of the moves that holds book moves
\* only; it ends before the first move that is not a book move, whatever
\* follows.
C19_OpeningIsMaximalBookPrefix ==
    BookRead =>
        pgn_out[1].opening = SubSeq(pgn_b.moves, 1, BookPrefixLen(pgn_b.moves))

\* C19 witness: the opening read of a game of moves book, book, not book,
\* book has two moves.
C19_Witness ==
    /\ BookRead
    /\ [i \in 1..Len(pgn_b.moves) |-> pgn_b.moves[i].in_book] = <<TRUE, TRUE, FALSE, TRUE>>
    /\ Len(pgn_out[1].opening) = 2

\* The move and comment tokens among the tokens, in their order.
Movetext(tokens) == SelectSeq(tokens, LAMBDA t : t.type \in {"san", "comment"})

\* Every move token is followed by one comment, and that by a move token or
\* by nothing.
EachMoveCommented(m) ==
    \A i \in 1..Len(m) :
        m[i].type = "san" =>
            /\ i < Len(m)
            /\ m[i + 1].type = "comment"
            /\ i + 2 <= Len(m) => m[i + 2].type = "san"

RECURSIVE MovesWithOwnComments(_)
\* One move for each move token, in the order of the tokens, a book move when
\* the token after it is a comment that begins with "book,".
MovesWithOwnComments(m) ==
    IF m = <<>> THEN <<>>
    ELSE IF m[1].type = "san"
    THEN <<[notation |-> m[1].text,
            in_book |-> /\ Len(m) >= 2
                        /\ m[2].type = "comment"
                        /\ Len(m[2].text) >= 5
                        /\ SubSeq(m[2].text, 1, 5) = <<"b", "o", "o", "k", ",">>]>>
         \o MovesWithOwnComments(Tail(m))
    ELSE MovesWithOwnComments(Tail(m))

\* C20: when every move token of the text is followed by its own comment, the
\* game parsed has one move for each move token, in the order of the tokens,
\* and a move is a book move exactly when the comment after that same move
\* begins with "book,".
C20_MoveFlagFromOwnComment ==
    (/\ parsed # None
     /\ parsed[1].kind = "ok"
     /\ EachMoveCommented(Movetext(visited))) =>
        parsed[1].pgn[1].moves = MovesWithOwnComments(Movetext(visited))

\* C20 witness: the game of two book moves, extended by a move with a comment
\* of another kind and a move with a book comment, has been parsed: four
\* moves, out of book, an opening of two.
C20_Witness ==
    /\ parsed # None
    /\ parsed[1].kind = "ok"
    /\ EachMoveCommented(Movetext(visited))
    /\ [i \in 1..Len(parsed[1].pgn[1].moves) |-> parsed[1].pgn[1].moves[i].in_book]
           = <<TRUE, TRUE, FALSE, TRUE>>
    /\ out_of_book(parsed[1].pgn[1])
    /\ Len(opening(parsed[1].pgn[1])) = 2


\* C29: within one run notify is called at most once per identity hash, the
\* turns in which notify failed or add failed to write included, and never
\* for a hash of the store that load returned at startup.
C29_NotifyAtMostOncePerHash ==
    /\ \A i, j \in 1..Len(notify_log) :
           notify_log[i].hash = notify_log[j].hash => i = j
    /\ \A i \in 1..Len(notify_log) : notify_log[i].hash \notin load_info.loaded

\* A later turn of the same run meets again the game whose notify failed and
\* whose add failed to write, and goes to sleep without a second notify.
C29_Witness ==
    /\ pc = "sleep"
    /\ game # None
    /\ \E i \in 1..Len(notify_log) :
          /\ notify_log[i].hash = as_hash(game[1])
          /\ ~notify_log[i].ok
          /\ notify_log[i].turn < turns
    /\ \E i \in 1..Len(add_log) :
          /\ add_log[i].hash = as_hash(game[1])
          /\ ~add_log[i].ok
          /\ add_log[i].turn < turns
    /\ Len(notify_log) = 1

PlayerAsked == pgn_out # None /\ pgn_out[1].op = "has_player"

\* C21: has_player(name) is true exactly when the white player's name matches
\* name or the black player's name matches name, a match being that the
\* normalized name is a substring of the normalized player name.
C21_HasPlayerIffWhiteOrBlackMatches ==
    PlayerAsked =>
        (pgn_out[1].has_player <=>
            \/ IsSubstring(normalize(pgn_out[1].player), normalize(pgn_b.white_player))
            \/ IsSubstring(normalize(pgn_out[1].player), normalize(pgn_b.black_player)))

\* The game has the player through its black side only.
C21_Witness ==
    /\ PlayerAsked
    /\ pgn_out[1].has_player
    /\ ~IsSubstring(normalize(pgn_out[1].player), normalize(pgn_b.white_player))
    /\ IsSubstring(normalize(pgn_out[1].player), normalize(pgn_b.black_player))
    /\ pgn_out[1].player = <<"c", "o">>

\* C22: when the text has no game in it (end_game is never called), the parse
\* fails with the error of an empty input and gives no game.
C22_NoGameIsAnError ==
    (shape = "blank" /\ parsed # None) =>
        /\ parsed[1].kind = "err"
        /\ parsed[1].error = "Empty PGN"
        /\ parsed[1].pgn = None
        /\ hashes[1] = None
        /\ builder = PgnInfoBuilder_new

\* A text with no game in it has been parsed, and parsed once more.
C22_Witness ==
    /\ shape = "blank"
    /\ parsed # None
    /\ parsed[1].kind = "err"
    /\ reparsed = parsed

\* The move tokens of the movetext, those inside variations left out.
MoveTokens(tokens) == SelectSeq(tokens, LAMBDA t : t.type = "san")

Pending(self) == IF self.last_san # None THEN 1 ELSE 0

Notations(moves) == [i \in 1..Len(moves) |-> moves[i].notation]

TokenTexts(tokens) == [i \in 1..Len(tokens) |-> tokens[i].text]

\* C23: each move token outside variations is committed exactly once.  At
\* every point of a parse the committed moves plus the pending one are as
\* many as the move tokens seen; a move is pending from the first move token
\* on, so a commit happens exactly when a move token arrives while a move
\* is pending; the committed moves are the move tokens seen before the
\* pending one, in their order; and when the game ends the pending move is
\* committed, once, so that the builder and the game have every move token,
\* in order.
C23_EachMoveCommittedOnce ==
    shape = "game" =>
        LET sans == TokenTexts(MoveTokens(visited))
        IN  /\ (builder.last_san # None) <=> (sans # <<>>)
            /\ builder.last_san # None => builder.last_san[1] = sans[Len(sans)]
            /\ parsed = None =>
                    /\ Len(builder.moves) + Pending(builder) = Len(sans)
                    /\ Notations(builder.moves) =
                           SubSeq(sans, 1, Len(sans) - Pending(builder))
            /\ parsed # None => Notations(builder.moves) = sans
            /\ (parsed # None /\ parsed[1].kind = "ok") =>
                    /\ Notations(parsed[1].pgn[1].moves) = sans
                    /\ parsed[1].pgn[1].moves = builder.moves

\* A game of five moves with a repeated notation, a variation and comments
\* among them has ended: the builder holds the five, the fifth committed by
\* the end of the game, and still has that move in last_san.
C23_Witness ==
    /\ parsed # None
    /\ parsed[1].kind = "ok"
    /\ Len(parsed[1].pgn[1].moves) = 5
    /\ Len(builder.moves) = 5
    /\ builder.last_san = Some(builder.moves[5].notation)
    /\ \E i \in 1..Len(visited) : visited[i].type = "variation"
    /\ \E i, j \in 1..5 :
          i # j /\ parsed[1].pgn[1].moves[i].notation = parsed[1].pgn[1].moves[j].notation

\* The places of the move tokens in a movetext.
MovePlaces(m) == {p \in 1..Len(m) : m[p].type = "san"}

\* The comments that follow the move token at place p, up to the next move
\* token or the end.
CommentsAfter(m, p) ==
    LET later == {q \in MovePlaces(m) : q > p}
        stop == IF later = {} THEN Len(m) + 1
                ELSE CHOOSE q \in later : \A r \in later : q <= r
    IN  SubSeq(m, p + 1, stop - 1)

\* The number of the move whose token is at place p.
MoveNumber(m, p) == Cardinality({q \in MovePlaces(m) : q <= p})

BeginsWithBook(c) == Len(c) >= 5 /\ SubSeq(c, 1, 5) = <<"b", "o", "o", "k", ",">>

\* C24: a move followed by no comment is committed as a move that is not in
\* book, in the middle of the game as at its end, and parsing a game with
\* such moves does not panic: with the four tags present it gives a game.
C24_CommentlessMoveNotInBook ==
    (shape = "game" /\ parsed # None /\ HeadersPresent(builder)) =>
        /\ parsed[1].kind = "ok"
        /\ LET m == Movetext(visited)
           IN  \A p \in MovePlaces(m) :
                   CommentsAfter(m, p) = <<>> =>
                       ~parsed[1].pgn[1].moves[MoveNumber(m, p)].in_book

\* After two book moves, a move with no comment is followed by another move
\* with no comment, which ends the game: neither is a book move.
C24_Witness ==
    /\ parsed # None
    /\ parsed[1].kind = "ok"
    /\ LET m == Movetext(visited)
       IN  /\ Len(m) = 6
           /\ m[5].type = "san" /\ m[6].type = "san"
           /\ parsed[1].pgn[1].moves[2].in_book
           /\ ~parsed[1].pgn[1].moves[3].in_book
           /\ ~parsed[1].pgn[1].moves[4].in_book

\* The places of the comments that stand before the first move token.
EarlyComments(tokens) ==
    {p \in 1..Len(tokens) :
        /\ tokens[p].type = "comment"
        /\ \A q \in 1..p : tokens[q].type # "san"}

RECURSIVE WithoutPlaces(_, _, _)
\* The tokens from place p on, those at the places of drop left out.
WithoutPlaces(tokens, drop, p) ==
    IF p > Len(tokens) THEN <<>>
    ELSE (IF p \in drop THEN <<>> ELSE <<tokens[p]>>) \o WithoutPlaces(tokens, drop, p + 1)

\* C25: a comment seen while no move is pending, such as the comment before
\* the first move, is dropped: the move token that follows finds no comment
\* attached to it, and the game parsed is the game of the text without that
\* comment, so the comment decides no move's in_book flag.
C25_EarlyCommentDropped ==
    shape = "game" =>
        /\ (parsed = None /\ visited # <<>> /\ Last(visited).type = "san") =>
               builder.last_comment = None
        /\ parsed # None =>
               parsed[1] = get_pgn_info([shape |-> "game",
                                         tokens |-> WithoutPlaces(visited,
                                                        EarlyComments(visited), 1)])

\* A book comment stands before the first move, the first move has no
\* comment of its own, and the game parsed has that move out of book.
C25_Witness ==
    /\ parsed # None
    /\ parsed[1].kind = "ok"
    /\ \E p \in EarlyComments(visited) : BeginsWithBook(visited[p].text)
    /\ LET m == Movetext(visited)
       IN  \E p \in MovePlaces(m) : MoveNumber(m, p) = 1 /\ CommentsAfter(m, p) = <<>>
    /\ ~parsed[1].pgn[1].moves[1].in_book

\* The flag of the move at place p of a movetext: that the last of the
\* comments after it, if it has any, begins with "book,".
FlagAtCommit(m, p) ==
    LET cs == CommentsAfter(m, p)
    IN  cs # <<>> /\ BeginsWithBook(cs[Len(cs)].text)

\* C26: a move's in_book flag is computed when the move is committed, from
\* the comment in the buffer at that moment: of several comments after a move
\* the last one decides, and the buffer is emptied by the commit, so that a
\* comment decides the flag of the move it follows and of no other.
C26_FlagFromBufferAtCommit ==
    (shape = "game" /\ parsed # None /\ parsed[1].kind = "ok") =>
        LET m == Movetext(visited)
        IN  \A p \in MovePlaces(m) :
                parsed[1].pgn[1].moves[MoveNumber(m, p)].in_book = FlagAtCommit(m, p)

\* A move is followed by a book comment and then by a comment of another
\* kind and is out of book; the move after it has no comment and is out of
\* book as well.
C26_Witness ==
    /\ parsed # None
    /\ parsed[1].kind = "ok"
    /\ LET m == Movetext(visited)
       IN  \E p, q \in MovePlaces(m) :
              /\ Len(CommentsAfter(m, p)) = 2
              /\ BeginsWithBook(CommentsAfter(m, p)[1].text)
              /\ ~BeginsWithBook(CommentsAfter(m, p)[2].text)
              /\ ~parsed[1].pgn[1].moves[MoveNumber(m, p)].in_book
              /\ MoveNumber(m, q) = MoveNumber(m, p) + 1
              /\ CommentsAfter(m, q) = <<>>
              /\ ~parsed[1].pgn[1].moves[MoveNumber(m, q)].in_book

\* The tokens of a text with its variations taken out.
WithoutVariations(tokens) == SelectSeq(tokens, LAMBDA t : t.type # "variation")

\* The builder of a parse that has seen these tokens, before or after the
\* end of the game.
BuilderOf(tokens, ended) ==
    IF ended THEN EndGameCommit(VisitAll(PgnInfoBuilder_new, tokens))
    ELSE VisitAll(PgnInfoBuilder_new, tokens)

\* C27: variations are skipped entirely: at every point of a parse, the end
\* of the game included, the builder, with its buffers, is the builder of
\* the tokens seen without their variations, and the result of the parse is
\* the result for the text without its variations.
C27_VariationsSkipped ==
    shape = "game" =>
        /\ builder = BuilderOf(WithoutVariations(visited), parsed # None)
        /\ parsed # None =>
               parsed[1] = get_pgn_info([shape |-> "game",
                                         tokens |-> WithoutVariations(visited)])

\* A variation with a move and a comment of its own stands between a move
\* and the comment of that move, and the game parsed has the two moves of
\* the main line only.
C27_Witness ==
    /\ parsed # None
    /\ parsed[1].kind = "ok"
    /\ \E p \in 2..(Len(visited) - 1) :
          /\ visited[p].type = "variation"
          /\ visited[p].inner # <<>>
          /\ visited[p - 1].type = "san"
          /\ visited[p + 1].type = "comment"
    /\ Len(parsed[1].pgn[1].moves) = Len(MoveTokens(visited))

\* The value of the last header of the tokens with this key, if any.
LastHeader(tokens, k) ==
    LET places == {p \in 1..Len(tokens) : tokens[p].type = "header" /\ tokens[p].key = k}
    IN  IF places = {} THEN None
        ELSE Some(tokens[CHOOSE p \in places : \A q \in places : q <= p].text)

RequiredKeys == {EVENT_KEY, WHITE_HEADER_KEY, BLACK_HEADER_KEY, DATE_HEADER_KEY}

\* The tokens without the headers whose key is not one of the four.
WithoutOtherHeaders(tokens) ==
    SelectSeq(tokens, LAMBDA t : t.type = "header" => t.key \in RequiredKeys)

\* C28: the headers are kept last write wins, and only the four keys: each
\* of Event, White, Black and Date holds the value of its most recent header,
\* or nothing when there was none, and a header of any other key changes
\* nothing in the visitor.
C28_HeadersLastWriteWins ==
    shape = "game" =>
        /\ builder.event = LastHeader(visited, EVENT_KEY)
        /\ builder.white_player = LastHeader(visited, WHITE_HEADER_KEY)
        /\ builder.black_player = LastHeader(visited, BLACK_HEADER_KEY)
        /\ builder.date = LastHeader(visited, DATE_HEADER_KEY)
        /\ builder = BuilderOf(WithoutOtherHeaders(visited), parsed # None)

\* The Date header is seen twice with different values and a Round header
\* after them; the builder holds the second date, and a game without a
\* Date header has none.
C28_Witness ==
    /\ parsed = None
    /\ \E p, q, r \in 1..Len(visited) :
          /\ p < q /\ q < r
          /\ visited[p].type = "header" /\ visited[p].key = DATE_HEADER_KEY
          /\ visited[q].type = "header" /\ visited[q].key = DATE_HEADER_KEY
          /\ visited[p].text # visited[q].text
          /\ visited[r].type = "header" /\ visited[r].key \notin RequiredKeys
          /\ builder.date = Some(visited[q].text)
          /\ \A x \in (q + 1)..Len(visited) : visited[x].key # DATE_HEADER_KEY

\* What get_pgn_info returns for the first k tokens of the text: the snapshot
\* of the feed taken when the game had come that far.
Snapshot(k) == get_pgn_info([shape |-> "game", tokens |-> SubSeq(visited, 1, k)])

\* C30: a game in progress is not notified again as it advances: when an
\* earlier snapshot of the text gave a game that is out of book, and the text
\* has since grown by comments and moves only, the game parsed from the whole
\* text has the same opening and the same identity hash as the snapshot's.
C30_LaterSnapshotSameOpeningAndHash ==
    (shape = "game" /\ parsed # None /\ parsed[1].kind = "ok") =>
        \A k \in 1..Len(visited) :
            (/\ \A j \in (k + 1)..Len(visited) : visited[j].type \in {"san", "comment"}
             /\ Snapshot(k).kind = "ok"
             /\ out_of_book(Snapshot(k).pgn[1])) =>
                /\ opening(parsed[1].pgn[1]) = opening(Snapshot(k).pgn[1])
                /\ as_hash(parsed[1].pgn[1]) = as_hash(Snapshot(k).pgn[1])

\* The answers of the server that hold a game still in its book.
InBookTexts ==
    {text \in Feed :
        /\ get_pgn_info(text).kind = "ok"
        /\ \A i \in 1..Len(get_pgn_info(text).pgn[1].moves) :
               get_pgn_info(text).pgn[1].moves[i].in_book}

\* What a turn may send or record.
store_and_notifications == <<state, file, file_exists, notify_log, add_log, durable>>

\* C31: for a fetched game that is not out of book (every move a book move,
\* a game of no move included) get_current_game returns None, main goes to
\* its sleep, and from the fetch to the start of the next turn nothing is
\* notified and neither the set nor the record changes.
C31_InBookGameEndsTheTurn ==
    [][/\ \A text \in InBookTexts :
             FetchGame(TRUE, text) =>
                 /\ fetched' = "none"
                 /\ game' = None
                 /\ pc' = "sleep"
                 /\ UNCHANGED store_and_notifications
       /\ (pc = "sleep" /\ fetched = "none") =>
             /\ pc' \in {"turn", "killed"}
             /\ UNCHANGED store_and_notifications]_vars

\* In a run that has announced and recorded a game, a later turn has fetched
\* a game still in its book and is back at the start of the loop with one
\* notification and one record as before.
C31_Witness ==
    /\ pc = "turn"
    /\ fetched = "none"
    /\ game = None
    /\ Len(notify_log) = 1
    /\ Len(add_log) = 1
    /\ notify_log[1].turn < turns
    /\ TextNoMoves \in InBookTexts
    /\ TextInBook \in InBookTexts

ContainsAsked == pgn_out # None /\ pgn_out[1].op = "contains"

\* The two games have the same date and the same opening, and on each side
\* names whose normalized forms are equal.
SameButForVersions(a, b) ==
    /\ a.date = b.date
    /\ opening(a) = opening(b)
    /\ normalize(a.white_player) = normalize(b.white_player)
    /\ normalize(a.black_player) = normalize(b.black_player)

\* C32: games whose players differ only by version suffix are the same game:
\* with the same date and opening, and white (and black) raw names of equal
\* normalized forms, the two have equal identity hashes, compare equal, and
\* the second is found in a store to which the first has been added.
C32_VersionsApartSameGame ==
    (ContainsAsked /\ SameButForVersions(pgn_a, pgn_b)) =>
        /\ pgn_out[1].hash_a = pgn_out[1].hash_b
        /\ pgn_out[1].eq
        /\ pgn_out[1].seen

\* The white player of the second game is "Lu 3" where the first has "Lu 2",
\* and the second is found in the store that holds the first.
C32_Witness ==
    /\ ContainsAsked
    /\ SameButForVersions(pgn_a, pgn_b)
    /\ pgn_a.white_player = NameLu
    /\ pgn_b.white_player = NameLu3
    /\ pgn_a # pgn_b
    /\ state = {pgn_out[1].hash_a}
    /\ pgn_out[1].seen

\* The entries of a log that belong to the current turn.
InThisTurn(log) == {i \in 1..Len(log) : log[i].turn = turns}

\* C33: within a turn the steps come in the order fetch and parse, contains,
\* notify, add, each at most once, and a turn is over before the next one
\* begins: contains is asked of a game that was fetched and parsed, notify is
\* called only for a game that contains did not find, add only after notify
\* has been called in the same turn for the same game, and no turn has two
\* notify calls or two add calls.
C33_TurnStepsInOrder ==
    /\ \A i, j \in 1..Len(notify_log) : notify_log[i].turn = notify_log[j].turn => i = j
    /\ \A i, j \in 1..Len(add_log) : add_log[i].turn = add_log[j].turn => i = j
    /\ \A i \in 1..Len(add_log) :
           \E j \in 1..Len(notify_log) :
               notify_log[j].turn = add_log[i].turn /\ notify_log[j].hash = add_log[i].hash
    /\ \A i \in 1..Len(notify_log) : notify_log[i].turn <= turns
    /\ pc \in {"fetch", "check"} =>
           InThisTurn(notify_log) = {} /\ InThisTurn(add_log) = {}
    /\ pc \in {"check", "notify", "add", "write"} => fetched = "some" /\ game # None
    /\ pc = "notify" =>
           /\ as_hash(game[1]) \notin state
           /\ InThisTurn(notify_log) = {}
           /\ InThisTurn(add_log) = {}
    /\ pc \in {"add", "write"} =>
           /\ InThisTurn(notify_log) = {Len(notify_log)}
           /\ Last(notify_log).hash = as_hash(game[1])
           /\ InThisTurn(add_log) = {}

\* Two turns of one run have each gone through fetch, contains, notify and
\* add, and the second is at its sleep.
C33_Witness ==
    /\ pc = "sleep"
    /\ Len(notify_log) = 2
    /\ Len(add_log) = 2
    /\ notify_log[1].turn = add_log[1].turn
    /\ notify_log[2].turn = turns
    /\ add_log[2].turn = turns
    /\ notify_log[1].turn < turns

\* C34: the seen-game state only grows during a run: no step of a process
\* takes a hash out of its set, and no step, of this process or a later one,
\* does anything to the backing record but append to it: what the record
\* held before a step is a prefix of what it holds after, and the record is
\* never removed.
C34_StoreOnlyGrows ==
    [][/\ run' = run => state \subseteq state'
       /\ StartsWith(file', file)
       /\ file_exists => file_exists']_vars

\* A second add of the run has returned Ok: the set holds two hashes and the
\* record is the record as it was before that add, with a line after it.
C34_Witness ==
    /\ AddReturned
    /\ Last(add_log).ok
    /\ Len(add_log) = 2
    /\ Cardinality(state) >= 2
    /\ file_before # <<>>
    /\ StartsWith(file, file_before)
    /\ Len(file) > Len(file_before)

\* The engine identifier e of a configuration names a player of the game.
EnginePlays(e, g) ==
    \/ IsSubstring(normalize(e), normalize(g.white_player))
    \/ IsSubstring(normalize(e), normalize(g.black_player))

\* C35: the recipients mentioned in the notification of a new game are the
\* union of the recipient sets of exactly those engine identifiers of the
\* configuration in effect in that turn that name one of its players.
C35_MentionsAreUnionOverMatchingEngines ==
    pc = "add" =>
        \A u \in {"u1", "u2"} \cup Last(notify_log).mentions :
            u \in Last(notify_log).mentions <=>
                \E e \in DOMAIN notify_config :
                    u \in notify_config[e] /\ EnginePlays(e, game[1])

\* Under the configuration of two engines, one of which plays in the game
\* and one does not, the users of the one that plays are mentioned.
C35_Witness ==
    /\ pc = "add"
    /\ notify_config = ConfigLu
    /\ ~EnginePlays(<<"l", "u">>, game[1])
    /\ EnginePlays(<<"C", "o">>, game[1])
    /\ Last(notify_log).mentions = {"u1", "u2"}

\* The game of this turn was not in the store load returned and has not been
\* announced in an earlier turn of this run.
NewThisTurn(h) ==
    /\ h \notin load_info.loaded
    /\ \A i \in 1..Len(notify_log) : notify_log[i].hash = h => notify_log[i].turn = turns

\* C36: every newly observed out-of-book game has exactly one notify call
\* and one add call in its turn, also when no configured engine plays in it
\* and nobody is mentioned: the match decides who is mentioned, not whether
\* the game is announced and recorded.
C36_NewGameAnnouncedWithoutMatch ==
    (pc = "sleep" /\ fetched = "some" /\ NewThisTurn(as_hash(game[1]))) =>
        /\ Cardinality(InThisTurn(notify_log)) = 1
        /\ Cardinality(InThisTurn(add_log)) = 1
        /\ \A i \in InThisTurn(notify_log) : notify_log[i].hash = as_hash(game[1])
        /\ \A i \in InThisTurn(add_log) : add_log[i].hash = as_hash(game[1])

\* A new game in which no configured engine plays has been announced with
\* nobody mentioned, and recorded.
C36_Witness ==
    /\ pc = "sleep"
    /\ fetched = "some"
    /\ NewThisTurn(as_hash(game[1]))
    /\ notify_config # EmptyConfig
    /\ \A e \in DOMAIN notify_config : ~EnginePlays(e, game[1])
    /\ Last(notify_log).turn = turns
    /\ Last(notify_log).mentions = {}
    /\ Last(add_log).turn = turns

\* C37: a failed refresh leaves the notify configuration as it was.  In the
\* step that begins a turn, when get_notify_config returned an error the
\* configuration is unchanged and the turn goes on to fetch the game; the
\* configuration changes only when the refresh returned a configuration
\* different from the current one, and then to that one; and from there to
\* the end of the turn, its choice of recipients included, the configuration
\* stays the same.
C37_FailedRefreshKeepsConfig ==
    [][/\ turns' # turns =>
             /\ pc' = "fetch"
             /\ new_notify_config' # None
             /\ new_notify_config'[1].kind = "err" => notify_config' = notify_config
             /\ notify_config' # notify_config =>
                    /\ new_notify_config'[1].kind = "ok"
                    /\ new_notify_config'[1].cfg # notify_config
                    /\ notify_config' = new_notify_config'[1].cfg
             /\ (new_notify_config'[1].kind = "ok"
                    /\ new_notify_config'[1].cfg # notify_config) =>
                    notify_config' = new_notify_config'[1].cfg
       /\ pc \in {"fetch", "check", "notify", "add", "write", "sleep"} =>
             notify_config' = notify_config
       /\ (pc = "notify" /\ pc' = "add") =>
             Last(notify_log').mentions = Mentions(notify_config, game[1])]_vars

\* The refresh of the second turn has failed, and the turn is about to fetch
\* the game under the configuration loaded before.
C37_Witness ==
    /\ pc = "fetch"
    /\ turns = 2
    /\ new_notify_config # None
    /\ new_notify_config[1].kind = "err"
    /\ notify_config = ConfigLu

\* C38: normalization is idempotent: normalizing the normalized form of a
\* raw name gives that normalized form again, a name with both a version
\* suffix and a date code being stripped of both by one application.
C38_NormalizeIdempotent ==
    NamesNormalized => normalize(name_out[1].text_a) = name_out[1].text_a

\* C39: the backing record stays well-formed under write failures: in a
\* process that loaded a well-formed record, or none, after any adds, failed
\* ones included, every line of the record parses as a u64 and is a hash
\* that was loaded or passed to add.
C39_RecordStaysWellFormed ==
    (run = 1 /\ load_info.result = "ok" /\ load_info.read_ok) =>
        /\ AllLinesParse(file)
        /\ ParsedSet(file) \subseteq state

====
